---------------------------- MODULE Spec2Model ----------------------------
(***************************************************************************)
(* A model of parts of the Garden orchestration engine:                    *)
(*   - the interactive line editor (core/src/cli/command-line.ts) with     *)
(*     its flashed messages and the actions its return key starts,         *)
(*     the line it renders, and its disable() and enable(),                *)
(*   - the action graph builder (graph/actions.ts) as driven by            *)
(*     Garden.scanAndAddConfigs and Garden.getConfigGraph                  *)
(*     (core/src/garden.ts),                                               *)
(*   - the run results kept in the cluster                                 *)
(*     (plugins/kubernetes/run-results.ts),                                *)
(*   - the run handlers of the exec Run and Test actions                   *)
(*     (plugins/exec/run.ts, test.ts),                                     *)
(*   - the manifests of a kubernetes Deploy action                         *)
(*     (plugins/kubernetes/kubernetes-type/common.ts),                     *)
(*   - getAllPlugins, resolveProviders and scanAndAddConfigs of Garden,    *)
(*     which run under asyncLock (core/src/garden.ts),                     *)
(*   - the hide command and resolveRequest of the server                   *)
(*     (core/src/server/commands.ts),                                      *)
(*   - Garden.startWatcher (core/src/garden.ts),                           *)
(*   - the deployStatus events of the Deploy router, as its unit test      *)
(*     expects them (core/test/unit/src/router/deploy.ts).                 *)
(* Text is a sequence of one-character strings, so that substring, split   *)
(* and prefix tests are computed the way the code computes them.           *)
(***************************************************************************)
EXTENDS Integers, Sequences, FiniteSets, TLC

VARIABLES
  \* CommandLine fields (command-line.ts:54-60)
  currentCommand, cursorPosition, historyIndex, suggestionIndex,
  autocompletingFrom, commandHistory,
  \* observers of the keystrokes received (no handler reads them)
  rtPhase, rtTyped, rtErased, floated, tabList, tabFrom, tabPresses, lastKey,
  \* the message line messageCallback was last given, CommandLine's
  \* messageTimeout, the timers setTimeout holds, the time in milliseconds,
  \* the commands whose action has not settled, and the command whose
  \* action the last step invoked
  messageLine, messageTimeout, timers, now, running, invoked,
  \* CommandLine's enabled and showCursor, the line commandLineCallback was
  \* last given, the message of the last disable() and how the action of a
  \* command has settled in the last step (observers, the last two)
  enabled, showCursor, commandLine, disabledWith, settled,
  \* one evaluation of the action modes of actionConfigsToGraph: the
  \* actionModes argument and the mode worked out for each action key
  modeInput, modeResult,
  \* the modes other than "default" that the actions of each kind support,
  \* and the keys of the actions the does-not-support-mode warning was
  \* logged for
  supportedModes, modeWarnings,
  \* one call of Garden.getConfigGraph, or of actionConfigsToGraph on its
  \* own: who was called, where the call stands, the actionModes argument
  caller, pc, actionModes,
  \* the configs and groupConfigs arguments of actionConfigsToGraph
  configs, groupConfigs,
  \* Garden.actionConfigs, the configs getConfigGraph collects (its local
  \* actionConfigs), configsByKey of actionConfigsToGraph and the keys whose
  \* callback of Bluebird.map has not run yet
  gardenActionConfigs, actionConfigs, configsByKey, pending,
  \* the MutableConfigGraph, the plugins still to be asked, the error thrown
  \* and the graph returned
  graph, pluginsLeft, error, configGraph,
  \* calls of validate() so far, and augmentation steps so far that added
  \* an action or a dependency
  validateCalls, augmentUpdates,
  \* the ConfigMaps of the namespace that hold run results, by name, and the
  \* last call of a handler of the run results: what the backend answered
  \* and what the caller got
  configMaps, lastCall,
  \* the clock new Date() reads, and the last call of the run handler of
  \* an exec Run or Test action: what it was given and what it returned
  clock, execCall,
  \* the last call of readManifests: the spec it read, what reading the
  \* files and running kustomize came to, and what the caller got
  manifestCall,
  \* one Garden instance and the calls made on it: where each call of
  \* getAllPlugins, resolveProviders or scanAndAddConfigs stands, the queue
  \* of each key of asyncLock (its head holds the lock), the fields
  \* loadedPlugins, resolvedProviders and configsScanned, the resources the
  \* project holds, the module, workflow and action registries, how often
  \* each resource was put into its registry, and how often the body under
  \* each lock was started
  gardenCalls, asyncLock, loadedPlugins, resolvedProviders, configsScanned,
  projectResources, registry, addCounts, bodyRuns,
  \* the active monitors of garden.monitors and the last call of the hide
  \* command: its arguments, the monitors active then and those it stopped
  monitors, hideCall,
  \* a request to the server with the default project root of the server,
  \* and the call of resolveRequest for it: where it stands, the project
  \* config and the command it found, the calls it made on the instance
  \* manager and what it returned
  request, resolve,
  \* Garden.watcher: the Watcher startWatcher last made, with the skipped
  \* modules and actions it was made for and the skipPaths it was given
  watcher,
  \* garden.events.eventLog, the calls of the Deploy router (the handler
  \* asked for, where the call stands, its actionUid) and the next actionUid
  eventLog, routerCalls, nextUid

editorVars == <<currentCommand, cursorPosition, historyIndex, suggestionIndex,
                autocompletingFrom, commandHistory>>
observerVars ==
  <<rtPhase, rtTyped, rtErased, floated, tabList, tabFrom, tabPresses, lastKey>>
flashVars == <<messageLine, messageTimeout, timers, now, running, invoked>>
consoleVars == <<enabled, showCursor, commandLine, disabledWith, settled>>
modeVars == <<modeInput, modeResult>>
warnVars == <<supportedModes, modeWarnings>>
graphVars ==
  <<caller, pc, actionModes, configs, groupConfigs, gardenActionConfigs,
    actionConfigs, configsByKey, pending, graph, pluginsLeft, error, configGraph,
    validateCalls, augmentUpdates>>
runResultVars == <<configMaps, lastCall>>
execVars == <<clock, execCall>>
manifestVars == <<manifestCall>>
gardenVars ==
  <<gardenCalls, asyncLock, loadedPlugins, resolvedProviders, configsScanned,
    projectResources, registry, addCounts, bodyRuns>>
monitorVars == <<monitors, hideCall>>
requestVars == <<request, resolve>>
watcherVars == <<watcher>>
routerVars == <<eventLog, routerCalls, nextUid>>
laterVars == <<monitorVars, requestVars, watcherVars, routerVars>>
vars ==
  <<editorVars, observerVars, flashVars, consoleVars, modeVars, warnVars, graphVars,
    runResultVars, execVars, manifestVars, gardenVars, laterVars>>

(***************************************************************************)
(* Bounds                                                                  *)
(***************************************************************************)
\* longest buffer the character handler is allowed to build
MaxLen == 2
\* longest command history
MaxHist == 3
\* most consecutive presses of the tab key that are counted
MaxTabs == 4

(***************************************************************************)
(* Text helpers                                                            *)
(***************************************************************************)
Min(a, b) == IF a < b THEN a ELSE b
Max(a, b) == IF a > b THEN a ELSE b

\* String.prototype.substring(a, b): both indices clamped to [0, length],
\* swapped when a > b; indices are 0-based, b is exclusive.
Substring(s, a, b) ==
  LET ca == Max(0, Min(a, Len(s)))
      cb == Max(0, Min(b, Len(s)))
  IN  SubSeq(s, Min(ca, cb) + 1, Max(ca, cb))

\* String.prototype.substring(a)
SubstringFrom(s, a) == Substring(s, a, Len(s))

\* String.prototype.startsWith
StartsWith(s, p) == Len(p) <= Len(s) /\ SubSeq(s, 1, Len(p)) = p

\* String.prototype.trim() === "" for text whose only whitespace is the space
IsBlank(s) == \A i \in 1..Len(s) : s[i] = " "

\* String.prototype.split(" "): the words between the spaces, empty words kept
RECURSIVE SplitFrom(_, _)
SplitFrom(s, word) ==
  IF s = <<>> THEN <<word>>
  ELSE IF Head(s) = " " THEN <<word>> \o SplitFrom(Tail(s), <<>>)
  ELSE SplitFrom(Tail(s), Append(word, Head(s)))

Split(s) == SplitFrom(s, <<>>)

\* Array.prototype.filter((cmd) => cmd !== line)
Without(history, line) == SelectSeq(history, LAMBDA cmd : cmd # line)

Occurrences(history, line) == Cardinality({i \in 1..Len(history) : history[i] = line})

(***************************************************************************)
(* The line editor's surroundings                                          *)
(***************************************************************************)
\* characters with a character handler: a sample of inputChars
Chars == {"a", " "}

\* the paths of the known commands: "a" and "aa"
CommandPaths == { << <<"a">> >>, << <<"a", "a">> >> }

\* pickCommand(commands, rawArgs): a command whose path is a prefix of the
\* words of the line
PickCommand(rawArgs) ==
  {p \in CommandPaths : Len(p) <= Len(rawArgs) /\ SubSeq(rawArgs, 1, Len(p)) = p}

\* the lines the autocompleter knows, best ranked first
RankedLines == << <<"a">>, <<"a", "a">>, <<"a", " ", "a">> >>

\* Autocompleter.getSuggestions(input): nothing for blank input, otherwise
\* the known lines that start with the input, in ranked order
AutocompleterSuggestions(input) ==
  IF IsBlank(input) THEN <<>>
  ELSE SelectSeq(RankedLines, LAMBDA line : StartsWith(line, input))

\* CommandLine.getSuggestions(from)
GetSuggestions(from) ==
  IF from = 0 THEN <<>>
  ELSE AutocompleterSuggestions(Substring(currentCommand, 0, from))

(***************************************************************************)
(* Key handlers                                                            *)
(***************************************************************************)
\* CommandLine.moveCursor(position)
MoveCursor(position) ==
  /\ cursorPosition' = position
  /\ autocompletingFrom' = -1
  /\ suggestionIndex' = -1

\* characterHandler
CharacterKey(char) ==
  /\ Len(currentCommand) < MaxLen
  /\ currentCommand' = Substring(currentCommand, 0, cursorPosition) \o <<char>>
                         \o SubstringFrom(currentCommand, cursorPosition)
  /\ MoveCursor(cursorPosition + 1)
  /\ UNCHANGED <<historyIndex, commandHistory>>

\* a backspace that removes the character under the cursor, not the one before it
BackspaceAtCursor ==
  /\ IF cursorPosition > 0
     THEN /\ currentCommand' = Substring(currentCommand, 0, cursorPosition)
                                 \o SubstringFrom(currentCommand, cursorPosition + 1)
          /\ MoveCursor(cursorPosition - 1)
     ELSE UNCHANGED <<currentCommand, cursorPosition, autocompletingFrom, suggestionIndex>>
  /\ UNCHANGED <<historyIndex, commandHistory>>

\* the "backspace" handler
BackspaceKey ==
  /\ IF cursorPosition > 0
     THEN /\ currentCommand' = Substring(currentCommand, 0, cursorPosition - 1)
                                 \o SubstringFrom(currentCommand, cursorPosition)
          /\ MoveCursor(cursorPosition - 1)
     ELSE UNCHANGED <<currentCommand, cursorPosition, autocompletingFrom, suggestionIndex>>
  /\ UNCHANGED <<historyIndex, commandHistory>>

\* the "delete" handler
DeleteKey ==
  /\ currentCommand' = Substring(currentCommand, 0, cursorPosition)
                         \o SubstringFrom(currentCommand, cursorPosition + 1)
  /\ UNCHANGED <<cursorPosition, autocompletingFrom, suggestionIndex,
                 historyIndex, commandHistory>>

\* the "leftArrow" handler
LeftArrowKey ==
  /\ IF cursorPosition > 0
     THEN MoveCursor(cursorPosition - 1)
     ELSE UNCHANGED <<cursorPosition, autocompletingFrom, suggestionIndex>>
  /\ UNCHANGED <<currentCommand, historyIndex, commandHistory>>

\* the "rightArrow" handler
RightArrowKey ==
  /\ IF cursorPosition < Len(currentCommand)
     THEN MoveCursor(cursorPosition + 1)
     ELSE UNCHANGED <<cursorPosition, autocompletingFrom, suggestionIndex>>
  /\ UNCHANGED <<currentCommand, historyIndex, commandHistory>>

\* the "ctrl-a" and "fn-leftArrow" handlers
JumpToStartKey ==
  /\ MoveCursor(0)
  /\ UNCHANGED <<currentCommand, historyIndex, commandHistory>>

\* a jump to the end that lands one place behind the last character
JumpPastEndKey ==
  /\ MoveCursor(Len(currentCommand) + 1)
  /\ UNCHANGED <<currentCommand, historyIndex, commandHistory>>

\* the "fn-rightArrow" handler
JumpToEndKey ==
  /\ MoveCursor(Len(currentCommand))
  /\ UNCHANGED <<currentCommand, historyIndex, commandHistory>>

\* a tab handler that moves the cursor with moveCursor(), which forgets where
\* the completion started
TabKeyWithMoveCursor ==
  /\ IF cursorPosition = 0
     THEN UNCHANGED <<currentCommand, cursorPosition, autocompletingFrom, suggestionIndex>>
     ELSE LET suggestions == GetSuggestions(IF autocompletingFrom > -1
                                            THEN autocompletingFrom ELSE cursorPosition)
              next == IF suggestionIndex + 1 >= Len(suggestions) THEN 0 ELSE suggestionIndex + 1
          IN  IF Len(suggestions) > 0
              THEN /\ currentCommand' = suggestions[next + 1]
                   /\ MoveCursor(Len(suggestions[next + 1]))
              ELSE /\ suggestionIndex' = -1
                   /\ UNCHANGED <<currentCommand, cursorPosition, autocompletingFrom>>
  /\ UNCHANGED <<historyIndex, commandHistory>>

\* the "tab" handler
TabKey ==
  /\ IF cursorPosition = 0
     THEN UNCHANGED <<currentCommand, cursorPosition, autocompletingFrom, suggestionIndex>>
     ELSE LET suggestions == GetSuggestions(IF autocompletingFrom > -1
                                            THEN autocompletingFrom ELSE cursorPosition)
              next == IF suggestionIndex + 1 >= Len(suggestions) THEN 0 ELSE suggestionIndex + 1
          IN  IF Len(suggestions) > 0
              THEN /\ suggestionIndex' = next
                   /\ currentCommand' = suggestions[next + 1]
                   /\ autocompletingFrom' = IF autocompletingFrom = -1
                                            THEN cursorPosition ELSE autocompletingFrom
                   /\ cursorPosition' = Len(suggestions[next + 1])
              ELSE /\ suggestionIndex' = -1
                   /\ UNCHANGED <<currentCommand, cursorPosition, autocompletingFrom>>
  /\ UNCHANGED <<historyIndex, commandHistory>>

\* the "upArrow" handler
UpArrowKey ==
  /\ IF historyIndex > 0
     THEN /\ historyIndex' = historyIndex - 1
          /\ currentCommand' = commandHistory[historyIndex]
          /\ MoveCursor(Len(commandHistory[historyIndex]))
     ELSE UNCHANGED <<historyIndex, currentCommand, cursorPosition,
                      autocompletingFrom, suggestionIndex>>
  /\ UNCHANGED commandHistory

\* the "downArrow" handler
DownArrowKey ==
  /\ IF historyIndex < Len(commandHistory)
     THEN /\ currentCommand' = commandHistory[historyIndex + 1]
          /\ MoveCursor(Len(commandHistory[historyIndex + 1]))
          /\ historyIndex' = historyIndex + 1
     ELSE IF historyIndex > 0
     THEN /\ currentCommand' = <<>>
          /\ MoveCursor(0)
          /\ historyIndex' = Len(commandHistory)
     ELSE UNCHANGED <<historyIndex, currentCommand, cursorPosition,
                      autocompletingFrom, suggestionIndex>>
  /\ UNCHANGED commandHistory

\* a ctrl-u that clears from the cursor to the end of the line
CtrlUClearsToEnd ==
  /\ currentCommand' = Substring(currentCommand, 0, cursorPosition)
  /\ UNCHANGED <<cursorPosition, autocompletingFrom, suggestionIndex,
                 historyIndex, commandHistory>>

\* the "ctrl-u" handler
CtrlUKey ==
  /\ currentCommand' = SubstringFrom(currentCommand, cursorPosition)
  /\ MoveCursor(0)
  /\ UNCHANGED <<historyIndex, commandHistory>>

\* the "ctrl-k" handler
CtrlKKey ==
  /\ IF cursorPosition = 0
     THEN currentCommand' = <<>>
     ELSE UNCHANGED currentCommand
  /\ UNCHANGED <<cursorPosition, autocompletingFrom, suggestionIndex,
                 historyIndex, commandHistory>>

\* a push to the history that keeps the earlier identical entry
PushHistoryKeepingDuplicate(history, line) == Append(history, line)

\* handleReturn: "Push the command to the top of the history"
PushHistory(history, line) == Append(Without(history, line), line)

\* whether handleReturn finds a command for the line in the buffer
CommandFound == PickCommand(Split(currentCommand)) # {}

(***************************************************************************)
(* The flashed message                                                     *)
(***************************************************************************)
\* defaultMessageDuration, in milliseconds
DefaultMessageDuration == 3000

\* the time runs up to this many seconds
MaxSeconds == 4

\* opts.duration of a flash: 0 when the caller gives none
Durations == {0, 1000}

\* what messageCallback is given: the prefix, the text and the command the
\* text names; messageCallback("") gives NoMessage
Message(text, command) == [prefix |-> "", text |-> text, command |-> command]
NoMessage == Message("", <<>>)
NoCommand == <<>>

\* a handle of setTimeout: when it was set and when it is due. undefined,
\* the first value of messageTimeout, is NoTimer
NoTimer == [at |-> -1, due |-> -1]

\* a flash that leaves the earlier timer pending
KeepTimeout(handle) == timers

\* clearTimeout(handle): the timers left pending
ClearTimeout(handle) == timers \ {handle}

\* CommandLine.flashMessage(message, {prefix, duration})
FlashMessage(message, prefix, duration) ==
  LET timer == [at |-> now,
                due |-> now + (IF duration = 0 THEN DefaultMessageDuration
                               ELSE duration)]
  IN  /\ messageLine' = [message EXCEPT !.prefix = IF prefix = "" THEN "info" ELSE prefix]
      /\ messageTimeout' = timer
      /\ timers' = ClearTimeout(messageTimeout) \cup {timer}

\* an error that is not shown
FlashNoError(message, duration) == UNCHANGED <<messageLine, messageTimeout, timers>>

\* flashSuccess, flashError and flashWarning
FlashSuccess(message, duration) == FlashMessage(message, "success", duration)
FlashError(message, duration) == FlashMessage(message, "error", duration)
FlashWarning(message, duration) == FlashMessage(message, "warning", duration)

\* the callback setTimeout was given runs, not before the timer is due
TimerFires(timer) ==
  /\ timer \in timers
  /\ now >= timer.due
  /\ messageLine' = NoMessage
  /\ timers' = timers \ {timer}
  /\ invoked' = NoCommand
  /\ UNCHANGED <<messageTimeout, now, running>>

\* a second passes
Tick ==
  /\ now + 1000 <= MaxSeconds * 1000
  /\ now' = now + 1000
  /\ invoked' = NoCommand
  /\ UNCHANGED <<messageLine, messageTimeout, timers, running>>

\* a flash by an action that was handed the command line: a method of the
\* four with a duration or none
FlashMethods == {"flashMessage", "flashSuccess", "flashError", "flashWarning"}
FlashByAction(method, duration) ==
  /\ running # {}
  /\ IF method = "flashMessage" THEN FlashMessage(Message("told", NoCommand), "", duration)
     ELSE IF method = "flashSuccess" THEN FlashSuccess(Message("told", NoCommand), duration)
     ELSE IF method = "flashError" THEN FlashError(Message("told", NoCommand), duration)
     ELSE FlashWarning(Message("told", NoCommand), duration)
  /\ invoked' = NoCommand
  /\ UNCHANGED <<now, running>>

\* the commands with isInteractive set: "aa"
Interactive == { << <<"a", "a">> >> }

\* how the promise of command.action(...) settles
Outcomes == {"no errors", "errors", "rejected"}

\* callbacks that flash the success whatever the promise settled with
SettlesWithSuccess(command, outcome) ==
  /\ command \in running
  /\ running' = running \ {command}
  /\ FlashSuccess(Message("completed successfully", command), 0)
  /\ invoked' = NoCommand
  /\ UNCHANGED now

\* the then and catch callbacks handleReturn gives the promise of the action
ActionSettles(command, outcome) ==
  /\ command \in running
  /\ running' = running \ {command}
  /\ IF outcome \in {"errors", "rejected"}
     THEN FlashError(Message("failed running", command), 0)
     ELSE IF command \notin Interactive
     THEN FlashSuccess(Message("completed successfully", command), 0)
     ELSE UNCHANGED <<messageLine, messageTimeout, timers>>
  /\ invoked' = NoCommand
  /\ UNCHANGED now

\* a key handler that flashes nothing and invokes nothing
NoFlash == UNCHANGED <<messageLine, messageTimeout, timers, now, running>> /\ invoked' = NoCommand

\* CommandLine.handleReturn
HandleReturn ==
  IF IsBlank(currentCommand)
  THEN UNCHANGED editorVars /\ NoFlash
  ELSE IF ~CommandFound
  THEN /\ FlashError(Message("could not find command", NoCommand), 0)
       /\ invoked' = NoCommand
       /\ UNCHANGED <<editorVars, now, running>>
  ELSE LET command == CHOOSE path \in PickCommand(Split(currentCommand)) : TRUE
       IN  /\ Len(PushHistory(commandHistory, currentCommand)) <= MaxHist
           /\ commandHistory' = PushHistory(commandHistory, currentCommand)
           /\ historyIndex' = Len(commandHistory')
           /\ currentCommand' = <<>>
           /\ MoveCursor(0)
           /\ IF command \notin Interactive
              THEN FlashMessage(Message("running", command), "", 0)
              ELSE UNCHANGED <<messageLine, messageTimeout, timers>>
           /\ running' = running \cup {command}
           /\ invoked' = command
           /\ UNCHANGED now

(***************************************************************************)
(* The rendered line, disable() and enable()                               *)
(***************************************************************************)
\* emptyCommandLinePlaceholder, as one piece of text
Placeholder == <<"<enter command>">>

\* messages disable() is given
DisableMessages == {"thanks for stopping by", "please wait"}

\* what commandLineCallback is given: commandLinePrefix and the rendered
\* command with the position that is underlined (-1 for none) and whether
\* the command is coloured as a suggested one, or the message of disable();
\* NoLine before the first call
PromptLine(text, underlined, suggested) ==
  [kind |-> "prompt", text |-> text, underlined |-> underlined, suggested |-> suggested]
MessageLine(message) ==
  [kind |-> "message", text |-> <<message>>, underlined |-> -1, suggested |-> FALSE]
NoLine == [kind |-> "none", text |-> <<>>, underlined |-> -1, suggested |-> FALSE]

\* the line renderCommandLine() builds from the buffer, the cursor and
\* showCursor (the colours add nothing to the lengths it compares)
Rendered(command, cursor, shown) ==
  LET suggestions == IF Len(command) = 0 THEN <<>> ELSE AutocompleterSuggestions(command)
      suggested == \E i \in 1..Len(suggestions) : suggestions[i] = command
      completed == IF Len(suggestions) > 0
                   THEN command \o SubstringFrom(suggestions[1], Len(command))
                   ELSE command
  IN  IF Len(completed) = 0
      THEN PromptLine(Placeholder, IF shown THEN 0 ELSE -1, suggested)
      ELSE IF cursor = Len(completed)
      THEN PromptLine(completed \o (IF shown THEN <<"_">> ELSE <<" ">>), -1, suggested)
      ELSE PromptLine(completed, IF shown THEN cursor ELSE -1, suggested)

\* a render whatever enabled holds
AlwaysEnabled == TRUE

\* if (!this.enabled) { return }, in renderCommandLine()
RenderEnabled == enabled

\* if (!this.enabled) { return }, in keyStroke()
KeyStrokeEnabled == enabled

\* renderCommandLine() at the end of a step, or no call of it
RenderCommandLine ==
  commandLine' = IF RenderEnabled
                 THEN Rendered(currentCommand', cursorPosition', showCursor')
                 ELSE commandLine
NoRender == UNCHANGED commandLine

\* keyStroke(input, key) for a key with a handler: the handler, and the
\* render when the handler calls it
KeyStroke(handler, renders) ==
  /\ UNCHANGED <<enabled, showCursor, disabledWith>>
  /\ IF KeyStrokeEnabled
     THEN handler /\ (IF renders THEN RenderCommandLine ELSE NoRender)
     ELSE UNCHANGED editorVars /\ NoFlash /\ NoRender
  /\ settled' = [command |-> NoCommand, outcome |-> ""]

\* the callback of setInterval(..., 600)
Blink ==
  /\ showCursor' = ~showCursor
  /\ UNCHANGED <<editorVars, enabled, disabledWith>>
  /\ RenderCommandLine
  /\ settled' = [command |-> NoCommand, outcome |-> ""]

\* CommandLine.disable(message)
Disable(message) ==
  /\ enabled' = FALSE
  /\ commandLine' = MessageLine(message)
  /\ disabledWith' = message
  /\ settled' = [command |-> NoCommand, outcome |-> ""]
  /\ UNCHANGED <<editorVars, showCursor>>

\* CommandLine.enable()
Enable ==
  /\ enabled' = TRUE
  /\ commandLine' = Rendered(currentCommand, cursorPosition, showCursor)
  /\ settled' = [command |-> NoCommand, outcome |-> ""]
  /\ UNCHANGED <<editorVars, showCursor, disabledWith>>

\* the promise of an action settles: what it was and how
Settled(command, outcome) ==
  /\ settled' = [command |-> command, outcome |-> outcome]
  /\ UNCHANGED <<enabled, showCursor, commandLine, disabledWith>>
NotSettled ==
  /\ settled' = [command |-> NoCommand, outcome |-> ""]
  /\ UNCHANGED <<enabled, showCursor, commandLine, disabledWith>>

\* the console as the constructor leaves it, the callback not yet called
ConsoleIdle ==
  /\ enabled = TRUE /\ showCursor = TRUE
  /\ commandLine = NoLine
  /\ disabledWith = ""
  /\ settled = [command |-> NoCommand, outcome |-> ""]

(***************************************************************************)
(* Observers: what the keystrokes so far amount to                         *)
(***************************************************************************)
\* rtPhase/rtTyped/rtErased: since the buffer was last empty with the cursor
\* at 0, rtTyped characters were typed and then rtErased backspaces pressed,
\* and nothing else ("off" when something else was pressed).
ObserveCharacter ==
  IF rtPhase = "typing"
  THEN /\ rtTyped' = rtTyped + 1
       /\ UNCHANGED <<rtPhase, rtErased>>
  ELSE IF currentCommand = <<>> /\ cursorPosition = 0
  THEN rtPhase' = "typing" /\ rtTyped' = 1 /\ rtErased' = 0
  ELSE rtPhase' = "off" /\ rtTyped' = 0 /\ rtErased' = 0

ObserveOtherKey ==
  IF currentCommand' = <<>> /\ cursorPosition' = 0
  THEN rtPhase' = "typing" /\ rtTyped' = 0 /\ rtErased' = 0
  ELSE rtPhase' = "off" /\ rtTyped' = 0 /\ rtErased' = 0

ObserveBackspace ==
  IF rtPhase \in {"typing", "erasing"} /\ rtErased < rtTyped
  THEN /\ rtPhase' = "erasing"
       /\ rtErased' = rtErased + 1
       /\ UNCHANGED rtTyped
  ELSE ObserveOtherKey

\* floated: the last key was a return that moved an earlier entry of the
\* history to its end
ObserveReturn ==
  floated' = (/\ ~IsBlank(currentCommand) /\ CommandFound
              /\ Len(commandHistory) >= 2
              /\ \E i \in 1..(Len(commandHistory) - 1) : commandHistory[i] = currentCommand)

\* tabList/tabFrom/tabPresses: the last tabPresses keys were tab, the first
\* of them pressed with the cursor at tabFrom and tabList as the suggestions
\* for the text before it
ObserveTab ==
  IF tabPresses > 0
  THEN /\ tabPresses' = tabPresses + 1
       /\ UNCHANGED <<tabList, tabFrom>>
  ELSE IF cursorPosition > 0 /\ Len(GetSuggestions(cursorPosition)) > 0
  THEN /\ tabPresses' = 1
       /\ tabFrom' = cursorPosition
       /\ tabList' = GetSuggestions(cursorPosition)
  ELSE UNCHANGED <<tabList, tabFrom, tabPresses>>

\* a key other than tab ends the run of tab presses when it changes a field
\* of the editor
NoTab ==
  IF editorVars' = editorVars
  THEN UNCHANGED <<tabList, tabFrom, tabPresses>>
  ELSE tabList' = <<>> /\ tabFrom' = -1 /\ tabPresses' = 0
NoFloat == floated' = FALSE

\* lastKey: the key the last step handled when it was up, down, ctrl-u,
\* ctrl-k or return, by the name its handler is registered under; "other"
\* for any other key and "none" when the step was not a keystroke. Kept
\* where a property asks which key a step handled
Pressed(key) == lastKey' = key
NoKeyKept == UNCHANGED lastKey

(***************************************************************************)
(* Action keys and the patterns of the action modes                        *)
(***************************************************************************)
\* longest list of patterns under one mode
MaxPatterns == 2

Kinds == {"Build", "Deploy"}
Names == {"a", "b"}
Refs == [kind : Kinds, name : Names]

LowerCase(kind) == IF kind = "Build" THEN "build" ELSE "deploy"

\* `${kind.toLowerCase()}.${name}`, as a sequence of the parts of the string
ActionReferenceToString(ref) == <<LowerCase(ref.kind), ".", ref.name>>

Keys == {ActionReferenceToString(ref) : ref \in Refs}

\* entries of actionModes.sync / actionModes.local: a full key, or a glob
\* in which "*" stands for any run of parts
Patterns ==
  { <<"deploy", ".", "a">>, <<"deploy", ".", "*">>, <<"*", ".", "b">> }

RECURSIVE Minimatch(_, _)
Minimatch(key, pattern) ==
  IF pattern = <<>> THEN key = <<>>
  ELSE IF Head(pattern) = "*"
  THEN \/ Minimatch(key, Tail(pattern))
       \/ key # <<>> /\ Minimatch(Tail(key), pattern)
  ELSE /\ key # <<>>
       /\ Head(key) = Head(pattern)
       /\ Minimatch(Tail(key), Tail(pattern))

\* one of the two loops over a list of patterns: the loop stops at the first
\* entry that equals the key or matches it as a glob
RECURSIVE FirstMatch(_, _)
FirstMatch(key, patterns) ==
  IF patterns = <<>> THEN "none"
  ELSE IF key = Head(patterns) THEN "exact"
  ELSE IF Minimatch(key, Head(patterns)) THEN "glob"
  ELSE FirstMatch(key, Tail(patterns))

\* the sync loop first and the local loop second, as in FirstMatch, but with
\* the two lists the other way round
ActionModeSyncLast(key, modes) ==
  LET local == FirstMatch(key, modes.local)
      sync == FirstMatch(key, modes.sync)
  IN [mode |-> IF sync # "none" THEN "sync"
               ELSE IF local # "none" THEN "local" ELSE "default",
      explicitMode |-> (sync = "exact" \/ local = "exact")]

\* mode and explicitMode of one action key
ActionMode(key, modes) ==
  LET sync == FirstMatch(key, modes.sync)
      local == FirstMatch(key, modes.local)
  IN [mode |-> IF local # "none" THEN "local"
               ELSE IF sync # "none" THEN "sync" ELSE "default",
      explicitMode |-> (sync = "exact" \/ local = "exact")]

PatternLists ==
  UNION {[1..n -> Patterns] : n \in 0..MaxPatterns}

\* action.supportsMode(mode), by the kind of the action: every action
\* supports "default"
SupportsMode(kind, mode) == mode = "default" \/ mode \in supportedModes[kind]

\* a warning for every mode that is not supported, explicit or not
WarnsOfAnyMode(kind, applied) == ~SupportsMode(kind, applied.mode)

\* whether the callback logs "... is not configured for or does not
\* support <mode> mode" for an action of the kind
WarnsOfMode(kind, applied) == ~SupportsMode(kind, applied.mode) /\ applied.explicitMode

\* the kind of the action of a key
KindOfKey(key) == IF key[1] = "build" THEN "Build" ELSE "Deploy"

\* what the kinds may support, and what they support where nothing else
\* is said: Deploys the sync mode, Builds no mode
SupportedModes == [Kinds -> SUBSET {"sync", "local"}]
SupportedByDefault == [kind \in Kinds |-> IF kind = "Deploy" THEN {"sync"} ELSE {}]

ActionModeMaps == [sync : PatternLists, local : PatternLists]

NotApplied == [mode |-> "unset", explicitMode |-> FALSE]

(***************************************************************************)
(* The action modes of one call, key by key                                *)
(***************************************************************************)
ApplyActionMode(key) ==
  /\ modeResult[key] = NotApplied
  /\ modeResult' = [modeResult EXCEPT ![key] = ActionMode(key, modeInput)]
  /\ modeWarnings' =
       IF WarnsOfMode(KindOfKey(key), ActionMode(key, modeInput))
       THEN modeWarnings \cup {key} ELSE modeWarnings
  /\ UNCHANGED supportedModes
  /\ UNCHANGED modeInput

(***************************************************************************)
(* Action configs                                                          *)
(***************************************************************************)
\* most action configs one scan of the project adds
MaxConfigs == 2
\* plugins that are asked to augment the graph
MaxPlugins == 1

Types == {"container", "exec"}
OutputKeys == {"image", "log"}

\* keys of the static outputs schema of an action type
StaticOutputKeys(kind, type) == IF type = "container" THEN {"image"} ELSE {}

\* actionTypes[kind][type].spec, as far as the graph reads it
ActionTypeDefinition(kind, type) ==
  [kind |-> kind, name |-> type, staticKeys |-> StaticOutputKeys(kind, type)]

Ref(kind, name) == [kind |-> kind, name |-> name]
KeyOf(config) == ActionReferenceToString(config)

\* an action config: where it is declared (configFilePath || basePath), its
\* dependencies field, its build field ("" when unset), its copyFrom field
\* and the ${actions.<kind>.<name>.outputs.<key>} references of its spec
Config(kind, name, type, path, dependencies, build, copyFrom, references) ==
  [kind |-> kind, name |-> name, type |-> type, path |-> path,
   dependencies |-> dependencies, build |-> build, copyFrom |-> copyFrom,
   references |-> references]

OutputRef(kind, name, key) == [kind |-> kind, name |-> name, outputKey |-> key]

\* what the Deploy configs of a project link to
DeployLinks(other) ==
  { [dependencies |-> <<>>, build |-> "", references |-> <<>>],
    [dependencies |-> <<Ref("Deploy", other)>>, build |-> "", references |-> <<>>],
    [dependencies |-> <<>>, build |-> "a", references |-> <<>>] }
  \cup { [dependencies |-> <<>>, build |-> "",
          references |-> <<OutputRef("Deploy", other, key)>>] : key \in OutputKeys }

DeployConfigs ==
  { Config("Deploy", "a", "container", "p1", l.dependencies, l.build, <<>>, l.references)
      : l \in DeployLinks("b") }
  \cup { Config("Deploy", "b", "exec", "p2", l.dependencies, l.build, <<>>, l.references)
      : l \in DeployLinks("a") }
  \cup { Config("Deploy", "a", "exec", "p3", <<>>, "", <<>>, <<>>) }

BuildConfigs ==
  { Config("Build", "a", "exec", "p4", <<>>, "", copyFrom, <<>>)
      : copyFrom \in {<<>>, <<"b">>} }

\* the action configs a scan of the project can find
ScannedConfigs == DeployConfigs \cup BuildConfigs

\* the action configs handed to actionConfigsToGraph when it is called on
\* its own
CalledConfigs ==
  { c \in ScannedConfigs : c.references = <<>> /\ c.build = "" /\ c.copyFrom = <<>> }

\* the action configs converted from modules, alone or in a group
ModuleConfigs ==
  { Config("Deploy", "a", "exec", "p5", <<>>, "", <<>>, <<>>),
    Config("Deploy", "b", "exec", "p5", <<Ref("Deploy", "a")>>, "", <<>>, <<>>) }

\* the action configs a plugin adds when it augments the graph
PluginConfigs ==
  { Config("Deploy", "a", "exec", "p6", <<Ref("Deploy", "b")>>, "", <<>>, <<>>) }

\* the dependencies a plugin adds when it augments the graph
PluginDependencies ==
  { [by |-> Ref("Deploy", "a"), on |-> Ref("Deploy", "b")],
    [by |-> Ref("Deploy", "b"), on |-> Ref("Build", "a")] }

SeqsUpTo(set, n) == UNION {[1..m -> set] : m \in 0..n}

(***************************************************************************)
(* Maps from action key to config or action                                *)
(***************************************************************************)
EmptyMap == [key \in {} |-> {}]
Put(map, key, value) ==
  [k \in (DOMAIN map) \cup {key} |-> IF k = key THEN value ELSE map[k]]
Has(map, key) == key \in DOMAIN map

RECURSIVE SetToSeq(_)
SetToSeq(set) ==
  IF set = {} THEN <<>>
  ELSE LET x == CHOOSE y \in set : TRUE IN <<x>> \o SetToSeq(set \ {x})

\* Object.values of a map
Values(map) == LET keys == SetToSeq(DOMAIN map) IN [i \in 1..Len(keys) |-> map[keys[i]]]

(***************************************************************************)
(* Errors                                                                  *)
(***************************************************************************)
\* errors: the type, the message, the paths and the config the message names
NoRef == [kind |-> "", name |-> ""]
NoError == [type |-> "none", message |-> "", paths |-> {}, config |-> NoRef]
Error(type, message) ==
  [type |-> type, message |-> message, paths |-> {}, config |-> NoRef]

\* a configuration error whose message names the paths of two configs
ConflictError(message, existing, config) ==
  [type |-> "ConfigurationError", message |-> message,
   paths |-> {existing.path, config.path}, config |-> NoRef]

\* "Found two actions of the same name and kind: - <A> in <path> - <B> in
\* <path>"
ActionNameConflictError(configA, configB) ==
  ConflictError("Found two actions of the same name and kind", configA, configB)

(***************************************************************************)
(* actionConfigsToGraph: the configs by key                                *)
(***************************************************************************)
\* addConfig, on the pair of the map so far and the error thrown so far
AddConfigKeepingLast(state, config) ==
  IF state.error # NoError THEN state
  ELSE [state EXCEPT !.configsByKey = Put(@, KeyOf(config), config)]

AddConfig(state, config) ==
  IF state.error # NoError THEN state
  ELSE IF Has(state.configsByKey, KeyOf(config))
  THEN [state EXCEPT !.error =
          ActionNameConflictError(state.configsByKey[KeyOf(config)], config)]
  ELSE [state EXCEPT !.configsByKey = Put(@, KeyOf(config), config)]

RECURSIVE AddConfigs(_, _)
AddConfigs(state, configList) ==
  IF configList = <<>> THEN state
  ELSE AddConfigs(AddConfig(state, Head(configList)), Tail(configList))

\* a config of a group is given the config file path of its group
InGroup(group, config) ==
  IF group.path # "" THEN [config EXCEPT !.path = group.path] ELSE config

RECURSIVE AddGroups(_, _)
AddGroups(state, groups) ==
  IF groups = <<>> THEN state
  ELSE LET group == Head(groups)
           members == [i \in 1..Len(group.actions) |-> InGroup(group, group.actions[i])]
       IN AddGroups(AddConfigs(state, members), Tail(groups))

ConfigsByKey(configList, groups) ==
  AddGroups(AddConfigs([configsByKey |-> EmptyMap, error |-> NoError], configList), groups)

(***************************************************************************)
(* dependenciesFromActionConfig                                            *)
(***************************************************************************)
Dependency(ref, explicit, needsExecuted, needsStatic) ==
  [kind |-> ref.kind, name |-> ref.name, explicit |-> explicit,
   needsExecutedOutputs |-> needsExecuted, needsStaticOutputs |-> needsStatic]

SameRef(d, e) == d.kind = e.kind /\ d.name = e.name

\* a dependency on an action that is already depended on is merged into the
\* dependency that is there, attribute by attribute
AddActionDependency(dep, deps) ==
  IF \E d \in deps : SameRef(d, dep)
  THEN { IF SameRef(d, dep)
         THEN Dependency(d, d.explicit \/ dep.explicit,
                         d.needsExecutedOutputs \/ dep.needsExecutedOutputs,
                         d.needsStaticOutputs \/ dep.needsStaticOutputs)
         ELSE d : d \in deps }
  ELSE deps \cup {dep}

RECURSIVE AddReferences(_, _, _)
AddReferences(deps, references, staticKeys) ==
  IF references = <<>> THEN deps
  ELSE LET ref == Head(references)
           needsExecuted == ref.outputKey \notin staticKeys
       IN AddReferences(
            AddActionDependency(Dependency(ref, FALSE, needsExecuted, ~needsExecuted), deps),
            Tail(references), staticKeys)

ExplicitDependencies(config) ==
  { Dependency(config.dependencies[i], TRUE, FALSE, FALSE)
      : i \in 1..Len(config.dependencies) }

\* the Build actions named by copyFrom (Build) or build (other kinds)
BuildNames(config) ==
  IF config.kind = "Build"
  THEN {config.copyFrom[i] : i \in 1..Len(config.copyFrom)}
  ELSE IF config.build # "" THEN {config.build} ELSE {}

RECURSIVE AddBuilds(_, _)
AddBuilds(deps, names) ==
  IF names = {} THEN deps
  ELSE LET name == CHOOSE n \in names : TRUE
       IN AddBuilds(
            AddActionDependency(Dependency(Ref("Build", name), TRUE, FALSE, FALSE), deps),
            names \ {name})

DependenciesFromActionConfig(config, byKey, definition) ==
  IF \E name \in BuildNames(config) :
       ~Has(byKey, ActionReferenceToString(Ref("Build", name)))
  THEN [error |-> Error("ConfigurationError", "no such Build action could be found"),
        dependencies |-> {}]
  ELSE [error |-> NoError,
        dependencies |->
          AddReferences(AddBuilds(ExplicitDependencies(config), BuildNames(config)),
                        config.references, definition.staticKeys)]

(***************************************************************************)
(* actionFromConfig                                                        *)
(***************************************************************************)
NoAction == [config |-> {}, mode |-> "none", dependencies |-> {}]

ActionFromConfig(config, byKey, mode) ==
  IF config.type \notin Types
  THEN [error |-> Error("ConfigurationError", "Unrecognized action type"),
        action |-> NoAction]
  ELSE LET definition == ActionTypeDefinition(config.kind, config.type)
           found == DependenciesFromActionConfig(config, byKey, definition)
       IN [error |-> found.error,
           action |-> [config |-> config, mode |-> mode,
                       dependencies |-> found.dependencies]]

(***************************************************************************)
(* The graph                                                               *)
(***************************************************************************)
DependencyKeys(action) == {ActionReferenceToString(d) : d \in action.dependencies}

Edges(g) == {<<by, on>> \in (DOMAIN g) \X Keys : on \in DependencyKeys(g[by])}

\* keys reached from key over at most n edges, n >= 1
RECURSIVE ReachedIn(_, _, _)
ReachedIn(g, key, n) ==
  LET next == {on \in Keys : <<key, on>> \in Edges(g)}
  IN IF n = 1 THEN next
     ELSE next \cup UNION {ReachedIn(g, on, n - 1) : on \in next}

HasCycle(g) == \E key \in DOMAIN g : key \in ReachedIn(g, key, Cardinality(Keys))
HasDangling(g) == \E edge \in Edges(g) : edge[2] \notin DOMAIN g

\* MutableConfigGraph.validate: throws on a dependency cycle and on a
\* dependency on an action that is not in the graph
Validate(g) ==
  IF HasCycle(g) \/ HasDangling(g)
  THEN Error("ConfigurationError", "invalid dependency structure")
  ELSE NoError

\* MutableConfigGraph.addDependency
AddDependency(g, by, on) ==
  LET byKey == ActionReferenceToString(by)
  IN [g EXCEPT ![byKey].dependencies =
        AddActionDependency(Dependency(on, TRUE, FALSE, FALSE), @)]

(***************************************************************************)
(* Garden.getConfigGraph and actionConfigsToGraph, step by step            *)
(***************************************************************************)
\* most module action configs, groups, configs of a group, and actions and
\* dependencies added by one plugin
MaxAdded == 1

ProjectRoot == "."

NoGraph == [returned |-> FALSE, actions |-> EmptyMap]
Returned(g) == [returned |-> TRUE, actions |-> g]

Groups ==
  [name : {"g"}, path : {"", "p7"}, actions : SeqsUpTo(ModuleConfigs, MaxAdded)]

\* the actionModes handed to getConfigGraph
GraphActionModes ==
  { [sync |-> <<>>, local |-> <<>>],
    [sync |-> << <<"deploy", ".", "*">> >>, local |-> << <<"deploy", ".", "a">> >>] }

Throw(e) ==
  /\ pc' = "failed"
  /\ error' = e

\* Garden.addActionConfig, called for each action config the scan found
AddActionConfig(config) ==
  /\ caller = "getConfigGraph"
  /\ pc = "scan"
  /\ Cardinality(DOMAIN gardenActionConfigs) < MaxConfigs
  /\ IF Has(gardenActionConfigs, KeyOf(config))
     THEN /\ Throw(ConflictError("declared multiple times",
                                 gardenActionConfigs[KeyOf(config)], config))
          /\ UNCHANGED gardenActionConfigs
     ELSE /\ gardenActionConfigs' = Put(gardenActionConfigs, KeyOf(config), config)
          /\ UNCHANGED <<pc, error>>
  /\ UNCHANGED <<caller, configs, groupConfigs, actionModes, actionConfigs,
                 configsByKey, pending, graph, pluginsLeft, configGraph,
                 validateCalls, augmentUpdates>>

\* the scan is over
ConfigsScanned ==
  /\ caller = "getConfigGraph"
  /\ pc = "scan"
  /\ pc' = "convert"
  /\ UNCHANGED <<caller, configs, groupConfigs, actionModes,
                 gardenActionConfigs, actionConfigs, configsByKey, pending,
                 graph, pluginsLeft, error, configGraph, validateCalls,
                 augmentUpdates>>

\* the configs of Garden.actionConfigs and then the action configs converted
\* from modules, which must not take a key that is taken
RECURSIVE MergeModuleActions(_, _)
MergeModuleActions(state, moduleActionConfigs) ==
  IF moduleActionConfigs = <<>> \/ state.error # NoError THEN state
  ELSE LET config == Head(moduleActionConfigs)
           key == KeyOf(config)
       IN IF Has(state.actionConfigs, key)
          THEN [state EXCEPT !.error =
                  ConflictError("conflicts with action generated from Module",
                                state.actionConfigs[key], config)]
          ELSE MergeModuleActions([state EXCEPT !.actionConfigs = Put(@, key, config)],
                                  Tail(moduleActionConfigs))

\* the start of actionConfigsToGraph, up to its first await
BuildConfigsByKey(configList, groupList) ==
  LET built == ConfigsByKey(configList, groupList)
  IN /\ configs' = configList
     /\ groupConfigs' = groupList
     /\ configsByKey' = built.configsByKey
     /\ IF built.error # NoError
        THEN Throw(built.error) /\ UNCHANGED pending
        ELSE /\ pc' = "process"
             /\ pending' = DOMAIN built.configsByKey
             /\ UNCHANGED error

\* getConfigGraph from the conversion of the modules to its call of
\* actionConfigsToGraph
ResolveActionConfigs ==
  /\ caller = "getConfigGraph"
  /\ pc = "convert"
  /\ \E moduleActionConfigs \in SeqsUpTo(ModuleConfigs, MaxAdded),
        moduleGroups \in SeqsUpTo(Groups, MaxAdded) :
     LET merged == MergeModuleActions([actionConfigs |-> gardenActionConfigs,
                                       error |-> NoError], moduleActionConfigs)
     IN /\ actionConfigs' = merged.actionConfigs
        /\ IF merged.error # NoError
           THEN /\ Throw(merged.error)
                /\ UNCHANGED <<configs, groupConfigs, configsByKey, pending>>
           ELSE BuildConfigsByKey(Values(merged.actionConfigs), moduleGroups)
  /\ UNCHANGED <<caller, actionModes, gardenActionConfigs, graph,
                 pluginsLeft, configGraph, validateCalls, augmentUpdates>>

\* actionConfigsToGraph called on its own
CallActionConfigsToGraph ==
  /\ caller = "actionConfigsToGraph"
  /\ pc = "called"
  /\ \E configList \in SeqsUpTo(CalledConfigs, MaxConfigs),
        groupList \in SeqsUpTo(Groups, MaxAdded) :
       BuildConfigsByKey(configList, groupList)
  /\ UNCHANGED <<caller, actionModes, gardenActionConfigs, actionConfigs,
                 graph, pluginsLeft, configGraph, validateCalls,
                 augmentUpdates>>

\* "Error processing config for <kind> action <name>: <message>"
ProcessingError(config) ==
  [type |-> "ConfigurationError", message |-> "Error processing config",
   paths |-> {}, config |-> [kind |-> config.kind, name |-> config.name]]

\* the callback of Bluebird.map for one entry of configsByKey
ProcessConfig(key) ==
  /\ pc = "process"
  /\ key \in pending
  /\ LET applied == ActionMode(key, actionModes)
         made == ActionFromConfig(configsByKey[key], configsByKey, applied.mode)
     IN IF made.error # NoError
        THEN /\ Throw(ProcessingError(configsByKey[key]))
             /\ UNCHANGED <<graph, pending, modeWarnings>>
        ELSE /\ modeWarnings' =
                  IF WarnsOfMode(configsByKey[key].kind, applied)
                  THEN modeWarnings \cup {key} ELSE modeWarnings
             /\ graph' = Put(graph, key, made.action)
             /\ pending' = pending \ {key}
             /\ UNCHANGED <<pc, error>>
  /\ UNCHANGED supportedModes
  /\ UNCHANGED <<caller, configs, groupConfigs, actionModes,
                 gardenActionConfigs, actionConfigs, configsByKey,
                 pluginsLeft, configGraph, validateCalls, augmentUpdates>>

\* a validate() that does not wait for the callbacks
MapStarted == TRUE

\* whether actionConfigsToGraph has come to graph.validate(): Bluebird.map
\* has resolved, which it does when every callback has
MapResolved == pending = {}

\* the end of actionConfigsToGraph: graph.validate() and return graph
ValidateBuiltGraph ==
  /\ pc = "process"
  /\ MapResolved
  /\ validateCalls' = validateCalls + 1
  /\ IF Validate(graph) # NoError
     THEN Throw(Validate(graph)) /\ UNCHANGED <<configGraph, pluginsLeft>>
     ELSE IF caller = "actionConfigsToGraph"
     THEN /\ pc' = "returned"
          /\ configGraph' = Returned(graph)
          /\ UNCHANGED <<error, pluginsLeft>>
     ELSE pc' = "augment" /\ pluginsLeft' = MaxPlugins /\ UNCHANGED <<error, configGraph>>
  /\ UNCHANGED <<caller, configs, groupConfigs, actionModes,
                 gardenActionConfigs, actionConfigs, configsByKey, pending,
                 graph, augmentUpdates>>

\* a plugin without a provider or without the augmentGraph handler
SkipPlugin ==
  /\ pc = "augment"
  /\ pluginsLeft > 0
  /\ pluginsLeft' = pluginsLeft - 1
  /\ UNCHANGED <<caller, configs, groupConfigs, pc, actionModes,
                 gardenActionConfigs, actionConfigs, configsByKey, pending,
                 graph, error, configGraph, validateCalls, augmentUpdates>>

\* one action of addActions; a config of a plugin has no config file
AddPluginAction(state, config) ==
  IF state.error # NoError THEN state
  ELSE LET placed == [config EXCEPT !.path = ProjectRoot]
           made == ActionFromConfig(placed, state.actionConfigs, "default")
       IN IF made.error # NoError
          THEN [state EXCEPT !.error = made.error]
          ELSE [state EXCEPT !.graph = Put(@, KeyOf(placed), made.action),
                             !.actionConfigs = Put(@, KeyOf(placed), placed),
                             !.updated = TRUE]

RECURSIVE AddPluginActions(_, _)
AddPluginActions(state, addActions) ==
  IF addActions = <<>> THEN state
  ELSE AddPluginActions(AddPluginAction(state, Head(addActions)), Tail(addActions))

\* one dependency of addDependencies
AddPluginDependency(state, dependency) ==
  IF state.error # NoError THEN state
  ELSE IF \/ ~Has(state.graph, ActionReferenceToString(dependency.by))
          \/ ~Has(state.graph, ActionReferenceToString(dependency.on))
  THEN [state EXCEPT !.error = Error("PluginError", "action could not be found")]
  ELSE [state EXCEPT !.graph = AddDependency(@, dependency.by, dependency.on),
                     !.updated = TRUE]

RECURSIVE AddPluginDependencies(_, _)
AddPluginDependencies(state, addDependencies) ==
  IF addDependencies = <<>> THEN state
  ELSE AddPluginDependencies(AddPluginDependency(state, Head(addDependencies)),
                             Tail(addDependencies))

\* the end of one augmentation step, without its call of validate()
LeaveUnvalidated(updated, g) == [called |-> FALSE, error |-> NoError]

\* if (updated) { graph.validate() }
ValidateIfUpdated(updated, g) ==
  IF updated THEN [called |-> TRUE, error |-> Validate(g)]
  ELSE [called |-> FALSE, error |-> NoError]

\* the body of the loop over the plugins, for a plugin whose augmentGraph
\* handler returns addActions and addDependencies
AugmentGraph ==
  /\ pc = "augment"
  /\ pluginsLeft > 0
  /\ \E addActions \in SeqsUpTo(PluginConfigs, MaxAdded),
        addDependencies \in SeqsUpTo(PluginDependencies, MaxAdded) :
     LET start == [graph |-> graph, actionConfigs |-> actionConfigs,
                   error |-> NoError, updated |-> FALSE]
         added == AddPluginDependencies(AddPluginActions(start, addActions),
                                        addDependencies)
         checked == ValidateIfUpdated(added.updated, added.graph)
     IN /\ graph' = added.graph
        /\ actionConfigs' = added.actionConfigs
        /\ IF added.error # NoError
           THEN /\ Throw(added.error)
                /\ UNCHANGED <<pluginsLeft, validateCalls, augmentUpdates>>
           ELSE /\ augmentUpdates' = augmentUpdates + (IF added.updated THEN 1 ELSE 0)
                /\ validateCalls' = validateCalls + (IF checked.called THEN 1 ELSE 0)
                /\ IF checked.error # NoError
                   THEN Throw(checked.error) /\ UNCHANGED pluginsLeft
                   ELSE pluginsLeft' = pluginsLeft - 1 /\ UNCHANGED <<pc, error>>
  /\ UNCHANGED <<caller, configs, groupConfigs, actionModes,
                 gardenActionConfigs, configsByKey, pending, configGraph>>

\* after the loop: graph.validate() and return graph.toConfigGraph()
ReturnConfigGraph ==
  /\ pc = "augment"
  /\ pluginsLeft = 0
  /\ validateCalls' = validateCalls + 1
  /\ IF Validate(graph) # NoError
     THEN Throw(Validate(graph)) /\ UNCHANGED configGraph
     ELSE pc' = "returned" /\ configGraph' = Returned(graph) /\ UNCHANGED error
  /\ UNCHANGED <<caller, configs, groupConfigs, actionModes,
                 gardenActionConfigs, actionConfigs, configsByKey, pending,
                 graph, pluginsLeft, augmentUpdates>>


(***************************************************************************)
(* Run results kept in the cluster                                         *)
(***************************************************************************)
\* characters of a log that are kept when a result is stored
MaxRunResultLogLength == 1

\* texts are sequences of characters; Undefined is no text at all
Undefined == <<"undefined">>
LogTexts == {<<>>, <<"x">>, <<"x", "y">>}
Truthy(text) == text # Undefined /\ text # <<>>

\* objects with at most the key log; NoObject is undefined, Null is null
NoObject == [undefined |-> TRUE]
Null == [null |-> TRUE]
EmptyObject == [keys |-> {}, log |-> Undefined]
ObjectWithLog(text) == [keys |-> {"log"}, log |-> text]
LogOf(object) == IF "log" \in object.keys THEN object.log ELSE Undefined

\* the version of a result: a bare string, the structured object of earlier
\* releases, or none
VersionString(v) == [form |-> "string", versionString |-> v]
VersionObject(v) == [form |-> "object", versionString |-> v]
NoVersion == [form |-> "undefined", versionString |-> ""]

ProjectName == "p"
Versions == {"v1"}
RunActions ==
  [kind : {"Run", "Test"}, type : {"container"}, name : {"a"}, version : Versions]

\* the sha1 digest of a text, in hexadecimal: 40 characters that depend on
\* every part of the text and on nothing else (a checksum stands in for
\* the digest)
HexDigits ==
  <<"0", "1", "2", "3", "4", "5", "6", "7", "8", "9", "a", "b", "c", "d", "e", "f">>
PartCode(part) ==
  CASE part = "p" -> 1 [] part = "--" -> 2 [] part = "." -> 3
    [] part = "container" -> 4 [] part = "exec" -> 5
    [] part = "a" -> 6 [] part = "b" -> 7
    [] part = "v1" -> 8 [] part = "v2" -> 9
    [] part = "Run" -> 10 [] part = "Test" -> 11
    [] OTHER -> 12
RECURSIVE Checksum(_, _)
Checksum(text, sum) ==
  IF text = <<>> THEN sum
  ELSE Checksum(Tail(text), (31 * sum + PartCode(Head(text))) % 65521)
Hasha(text) ==
  LET sum == Checksum(text, 1)
  IN [i \in 1..40 |-> HexDigits[((((sum + i) * (sum + i)) \div 7) % 16) + 1]]
Slice(text, from, to) == SubSeq(text, from + 1, Min(to, Len(text)))

\* `run-result--${hash.slice(0, 32)}` of
\* `${ctx.projectName}--${action.type}.${action.name}--${action.versionString()}`
\* a key that tells the kinds of actions apart
GetRunResultKeyOfKind(action) ==
  LET key == <<ProjectName, "--", action.kind, ".", action.type, ".", action.name,
               "--", action.version>>
  IN <<"run-result--">> \o Slice(Hasha(key), 0, 32)

GetRunResultKey(action) ==
  LET key == <<ProjectName, "--", action.type, ".", action.name, "--", action.version>>
  IN <<"run-result--">> \o Slice(Hasha(key), 0, 32)

RunResultKeys == {GetRunResultKey(action) : action \in RunActions}

\* a value as its JSON text, and back
Json(value) == <<"json", value>>
Parse(text) == text[2]
Absent == <<>>

\* the data of a ConfigMap: each value of the result as a string
SerializeValues(result) ==
  [success |-> Json(result.success),
   log |-> IF result.log = Undefined THEN Absent ELSE Json(result.log),
   outputs |-> IF result.outputs = NoObject THEN Absent ELSE Json(result.outputs),
   version |-> IF result.version = NoVersion THEN Absent ELSE Json(result.version)]

DeserializeValues(data) ==
  [success |-> Parse(data.success),
   log |-> IF data.log = Absent THEN Undefined ELSE Parse(data.log),
   outputs |-> IF data.outputs = Absent THEN NoObject ELSE Parse(data.outputs),
   version |-> IF data.version = Absent THEN NoVersion ELSE Parse(data.version)]

\* the results the handlers of Run and Test actions hand to storeRunResult
RunResults ==
  { [success |-> success, log |-> log, outputs |-> ObjectWithLog(log),
     version |-> VersionString(version)]
      : success \in BOOLEAN, log \in LogTexts, version \in Versions }

\* the records earlier releases have left in the cluster
EarlierResults ==
  [success : BOOLEAN,
   log : {Undefined, <<>>, <<"x">>},
   outputs : {NoObject, EmptyObject, ObjectWithLog(<<>>), ObjectWithLog(<<"y">>)},
   version : {NoVersion} \cup {VersionString(v) : v \in Versions}
               \cup {VersionObject(v) : v \in Versions}]

\* the last characters of a text
TailString(text, maxLength) ==
  IF Len(text) <= maxLength THEN text
  ELSE SubSeq(text, Len(text) - maxLength + 1, Len(text))

TrimRunOutput(result) ==
  [result EXCEPT !.log = TailString(@, MaxRunResultLogLength)]

RunResultToActionState(result) == IF result.success THEN "ready" ELSE "failed"

\* errors: of the backend, with the status code of the response (0 when
\* there was no response), and of the language
NoFailure == [statusCode |-> -1, message |-> ""]
NotFound == [statusCode |-> 404, message |-> "not found"]
BackendFailures ==
  { [statusCode |-> 500, message |-> "internal error"],
    [statusCode |-> 0, message |-> "connection refused"] }
TypeError == [statusCode |-> 0, message |-> "TypeError"]

NoData == [success |-> Absent, log |-> Absent, outputs |-> Absent, version |-> Absent]
NoReturn == [state |-> "", detail |-> Null, outputs |-> Null]
NoRunAction == [kind |-> "", type |-> "", name |-> "", version |-> ""]
NoResult == [success |-> FALSE, log |-> Undefined, outputs |-> NoObject,
             version |-> NoVersion]
Idle ==
  [handler |-> "", action |-> NoRunAction, key |-> <<>>, answer |-> NoFailure,
   result |-> NoResult, previous |-> "", data |-> NoData,
   thrown |-> NoFailure, returned |-> NoReturn, warned |-> FALSE]

\* if (!result.outputs) { result.outputs = {} }
SynthesizeOutputs(result) ==
  IF result.outputs = NoObject THEN [result EXCEPT !.outputs = EmptyObject] ELSE result

\* the record as it is, without the log in its outputs
KeepOutputs(result) == result

\* a missing log of the outputs always becomes the empty text
BackfillEmptyLog(result) ==
  IF ~Truthy(LogOf(result.outputs))
  THEN [result EXCEPT !.outputs = ObjectWithLog(<<>>)]
  ELSE result

\* if (!result.outputs.log) { result.outputs.log = result.log || "" }
BackfillLog(result) ==
  IF ~Truthy(LogOf(result.outputs))
  THEN [result EXCEPT !.outputs =
          ObjectWithLog(IF Truthy(result.log) THEN result.log ELSE <<>>)]
  ELSE result

\* if (result.version.versionString) { result.version = result.version.versionString }
\* a bare string has no versionString
KeepVersionString(result) ==
  IF result.version.form = "object" /\ result.version.versionString # ""
  THEN [result EXCEPT !.version = VersionString(@.versionString)]
  ELSE result

\* the try block of k8sGetRunResult after the read
ReadRunResult(data) ==
  LET result == BackfillLog(SynthesizeOutputs(DeserializeValues(data)))
  IN IF result.version = NoVersion
     THEN [thrown |-> TypeError, returned |-> NoReturn]
     ELSE LET detail == KeepVersionString(result)
          IN [thrown |-> NoFailure,
              returned |-> [state |-> RunResultToActionState(detail),
                            detail |-> detail,
                            outputs |-> ObjectWithLog(detail.log)]]

\* every error counts as no result
CatchEveryError(err) ==
  [thrown |-> NoFailure,
   returned |-> [state |-> "not-ready", detail |-> Null, outputs |-> Null]]

\* the catch block of k8sGetRunResult
CatchReadError(err) ==
  IF err.statusCode = 404
  THEN [thrown |-> NoFailure,
        returned |-> [state |-> "not-ready", detail |-> Null, outputs |-> Null]]
  ELSE [thrown |-> err, returned |-> NoReturn]

\* api.core.readNamespacedConfigMap: the data, not found, or a failure
ReadAnswers(key) ==
  (IF Has(configMaps, key) THEN {NoFailure} ELSE {NotFound}) \cup BackendFailures

K8sGetRunResult(action, answer) ==
  LET key == GetRunResultKey(action)
      data == IF answer = NoFailure THEN configMaps[key] ELSE NoData
      tried == IF answer = NoFailure THEN ReadRunResult(data)
               ELSE [thrown |-> answer, returned |-> NoReturn]
      done == IF tried.thrown # NoFailure THEN CatchReadError(tried.thrown) ELSE tried
  IN /\ answer \in ReadAnswers(key)
     /\ lastCall' = [handler |-> "k8sGetRunResult", action |-> action, key |-> key,
                     answer |-> answer, result |-> NoResult,
                     data |-> data, thrown |-> done.thrown,
                     returned |-> done.returned, warned |-> FALSE,
                     previous |-> lastCall.handler]
     /\ UNCHANGED configMaps

\* the error of the write is passed on to the caller
RethrowStoreError(err) == [thrown |-> err, warned |-> FALSE]

\* catch (err) { log.warn(...) }
CatchStoreError(err) == [thrown |-> NoFailure, warned |-> TRUE]

\* upsertConfigMap fails or stores the data; storeRunResult returns the
\* trimmed result after the try statement
StoreRunResult(action, result, answer) ==
  LET key == GetRunResultKey(action)
      data == TrimRunOutput(result)
      tried == IF answer = NoFailure THEN [thrown |-> NoFailure, warned |-> FALSE]
               ELSE CatchStoreError(answer)
  IN /\ answer \in {NoFailure} \cup BackendFailures
     /\ configMaps' = IF answer = NoFailure
                      THEN Put(configMaps, key, SerializeValues(data))
                      ELSE configMaps
     /\ lastCall' = [handler |-> "storeRunResult", action |-> action, key |-> key,
                     answer |-> answer, result |-> result,
                     data |-> SerializeValues(data), thrown |-> tried.thrown,
                     returned |-> IF tried.thrown = NoFailure
                                  THEN [state |-> "", detail |-> data, outputs |-> Null]
                                  ELSE NoReturn,
                     warned |-> tried.warned,
                     previous |-> lastCall.handler]

Remove(map, key) == [k \in (DOMAIN map) \ {key} |-> map[k]]

\* every error of the delete is passed on to the caller
RethrowClearError(err) == err

\* catch (err) { if (err.statusCode !== 404) { throw err } }
CatchClearError(err) == IF err.statusCode # 404 THEN err ELSE NoFailure

\* api.core.deleteNamespacedConfigMap removes the record, or fails
ClearTaskResult(action, answer) ==
  LET key == GetRunResultKey(action)
  IN /\ answer \in ReadAnswers(key)
     /\ configMaps' = IF answer = NoFailure THEN Remove(configMaps, key) ELSE configMaps
     /\ lastCall' = [handler |-> "clearTaskResult", action |-> action, key |-> key,
                     answer |-> answer, result |-> NoResult, data |-> NoData,
                     thrown |-> IF answer = NoFailure THEN NoFailure
                                ELSE CatchClearError(answer),
                     returned |-> NoReturn, warned |-> FALSE,
                     previous |-> lastCall.handler]

(***************************************************************************)
(* The run handlers of the exec Run and Test actions                       *)
(***************************************************************************)
\* latest reading of the clock
MaxClock == 3

\* String.prototype.trim() of texts of blanks and letters
RECURSIVE TrimStart(_)
TrimStart(text) ==
  IF text # <<>> /\ Head(text) = " " THEN TrimStart(Tail(text)) ELSE text
RECURSIVE TrimEnd(_)
TrimEnd(text) ==
  IF text # <<>> /\ text[Len(text)] = " "
  THEN TrimEnd(SubSeq(text, 1, Len(text) - 1))
  ELSE text
Trim(text) == TrimEnd(TrimStart(text))

\* the command of the spec: none, the empty list, or a list of words
Commands == {Undefined, <<>>, <<"echo">>}
HasCommand(command) == command # Undefined /\ Len(command) > 0

\* what execRunCommand hands back with reject: false: the exit code and the
\* combined output (all, which may be undefined); given no command to run it
\* may also throw
CommandOutputs == {Undefined, <<>>, <<" ">>, <<"x">>, <<"x", " ">>}
Returns(exitCode, all) == [thrown |-> FALSE, exitCode |-> exitCode, all |-> all]
Throws == [thrown |-> TRUE, exitCode |-> -1, all |-> Undefined]
NotCalled == [thrown |-> FALSE, exitCode |-> -2, all |-> Undefined]
ExecRunCommand(command) ==
  {Returns(exitCode, all) : exitCode \in {0, 1}, all \in CommandOutputs}
    \cup (IF HasCommand(command) THEN {} ELSE {Throws})

\* commandResult.all?.trim() || ""
OutputLog(commandResult) ==
  IF commandResult.all = Undefined THEN <<>> ELSE Trim(commandResult.all)

NoExecCall ==
  [handler |-> "", command |-> Undefined, commandResult |-> NotCalled,
   thrown |-> FALSE, artifactsCopied |-> FALSE, state |-> "",
   success |-> FALSE, log |-> <<>>, detailOutputs |-> NoObject,
   outputs |-> NoObject, startedAt |-> 0, completedAt |-> 0]

\* the command is run whatever it is
ExecRunAlways(command) == TRUE

\* if (command && command.length)
ExecRunRunsCommand(command) == HasCommand(command)

\* execRun.addHandler("run", ...): elapsed is the time execRunCommand takes
ExecRunHandler(command, commandResult, elapsed) ==
  LET startedAt == clock
      runs == ExecRunRunsCommand(command)
      completedAt == IF runs THEN clock + elapsed ELSE startedAt
      outputLog == IF runs THEN OutputLog(commandResult) ELSE <<>>
      success == IF runs THEN commandResult.exitCode = 0 ELSE TRUE
  IN /\ clock + elapsed <= MaxClock
     /\ commandResult \in (IF runs THEN ExecRunCommand(command) ELSE {NotCalled})
     /\ ~commandResult.thrown
     /\ clock' = clock + elapsed
     /\ execCall' =
          [handler |-> "execRun", command |-> command,
           commandResult |-> commandResult, thrown |-> FALSE,
           artifactsCopied |-> TRUE,
           state |-> RunResultToActionState([success |-> success]),
           success |-> success, log |-> outputLog,
           detailOutputs |-> ObjectWithLog(outputLog),
           outputs |-> ObjectWithLog(outputLog),
           startedAt |-> startedAt, completedAt |-> completedAt]

\* execTest.addHandler("run", ...): elapsed is the time that passes between
\* the two readings of the clock, while execRunCommand and copyArtifacts
\* are awaited
ExecTestHandler(command, commandResult, elapsed) ==
  LET startedAt == clock
      outputLog == OutputLog(commandResult)
      success == commandResult.exitCode = 0
  IN /\ clock + elapsed <= MaxClock
     /\ commandResult \in ExecRunCommand(command)
     /\ clock' = clock + elapsed
     /\ execCall' =
          IF commandResult.thrown
          THEN [NoExecCall EXCEPT !.handler = "execTest", !.command = command,
                                  !.commandResult = commandResult, !.thrown = TRUE,
                                  !.startedAt = startedAt]
          ELSE [handler |-> "execTest", command |-> command,
                commandResult |-> commandResult, thrown |-> FALSE,
                artifactsCopied |-> TRUE,
                state |-> RunResultToActionState([success |-> success]),
                success |-> success, log |-> outputLog,
                detailOutputs |-> NoObject,
                outputs |-> ObjectWithLog(outputLog),
                startedAt |-> startedAt, completedAt |-> clock + elapsed]

(***************************************************************************)
(* The manifests of a kubernetes Deploy action                             *)
(***************************************************************************)
\* longest list of extra arguments for kustomize
MaxArgs == 2

\* no arguments are refused
NoDisallowedArgs == {}

\* const disallowedKustomizeArgs = ["-o", "--output", "-h", "--help"]
DisallowedKustomizeArgs == {"-o", "--output", "-h", "--help"}

KustomizeArgs ==
  {"-o", "--output", "-h", "--help", "--reorder", "-o=x", "--output=x", "-ox"}
\* extraArgs of the spec: undefined or a list of arguments
ExtraArgs == {Undefined} \cup SeqsUpTo(KustomizeArgs, MaxArgs)
\* Array.prototype.includes
Includes(list, element) == \E i \in 1..Len(list) : list[i] = element

\* the spec of the action: the inline manifests, the files, and the path
\* and extra arguments of kustomize (the path is Undefined when not set)
ManifestSpecs ==
  [manifests : {<<>>, <<"inline">>}, files : {<<>>, <<"f.yml">>},
   kustomizePath : {Undefined, <<"k">>}, extraArgs : ExtraArgs]

\* reading, resolving and parsing the files gives their manifests or fails;
\* kustomize build prints manifests or fails
FileOutcomes == {"read", "failed"}
KustomizeOutcomes == {"built", "failed"}

NoManifestCall ==
  [called |-> FALSE, spec |-> [manifests |-> <<>>, files |-> <<>>,
                               kustomizePath |-> Undefined, extraArgs |-> Undefined],
   files |-> "none", thrown |-> "", kustomizeCalls |-> 0, kustomizeArgs |-> <<>>,
   returned |-> <<>>]

\* readManifests: the files first, then the guard on the extra arguments,
\* then kustomize build; a call depends on nothing an earlier call has
\* left, so one call is followed
ReadManifests(spec, fileOutcome, kustomizeOutcome) ==
  LET fileManifests == IF spec.files = <<>> THEN <<>> ELSE <<"from file">>
      filesFailed == spec.files # <<>> /\ fileOutcome = "failed"
      extraArgs == IF spec.extraArgs = Undefined THEN <<>> ELSE spec.extraArgs
      refused == \E arg \in DisallowedKustomizeArgs : Includes(extraArgs, arg)
      runs == ~filesFailed /\ spec.kustomizePath # Undefined /\ ~refused
      thrown == IF filesFailed THEN "Error"
                ELSE IF spec.kustomizePath = Undefined THEN ""
                ELSE IF refused THEN "ConfigurationError"
                ELSE IF kustomizeOutcome = "failed" THEN "PluginError"
                ELSE ""
      kustomizeManifests == IF runs THEN <<"from kustomize">> ELSE <<>>
  IN /\ ~manifestCall.called
     /\ manifestCall' =
       [called |-> TRUE, spec |-> spec,
        files |-> IF spec.files = <<>> THEN "none" ELSE fileOutcome,
        thrown |-> thrown,
        kustomizeCalls |-> IF runs THEN 1 ELSE 0,
        kustomizeArgs |-> IF runs THEN <<"build">> \o spec.kustomizePath \o extraArgs
                          ELSE <<>>,
        returned |-> IF thrown = "" THEN spec.manifests \o fileManifests \o kustomizeManifests
                     ELSE <<>>]

(***************************************************************************)
(* The operations of Garden that run under asyncLock                       *)
(***************************************************************************)
\* calls made on the Garden instance
MaxCallers == 2
Callers == 1..MaxCallers

LockKeys == {"load-plugins", "resolve-providers", "scan-configs"}

\* the providers of the project, and the module configs each contributes
ProviderNames == {"exec", "k8s"}
Resource(kind, name) == [kind |-> kind, name |-> name]
ProviderModuleConfigs(name) ==
  IF name = "k8s" THEN {Resource("Module", "k8s-module")} ELSE {}

\* what the files of the project declare
ScannedResources ==
  {Resource("Module", "m"), Resource("Workflow", "w"), Resource("Deploy", "a")}
ProjectResources ==
  { <<>>,
    <<Resource("Module", "m")>>,
    <<Resource("Deploy", "a"), Resource("Module", "m")>>,
    <<Resource("Module", "m"), Resource("Workflow", "w"), Resource("Deploy", "a")>>,
    <<Resource("Deploy", "a"), Resource("Workflow", "w"), Resource("Workflow", "w")>> }
AllResources ==
  ScannedResources \cup UNION {ProviderModuleConfigs(name) : name \in ProviderNames}

NoCall ==
  [op |-> "", force |-> FALSE, names |-> {}, pc |-> "idle", doneAtCall |-> FALSE,
   checkedBefore |-> FALSE, checkedAfter |-> FALSE, queued |-> FALSE,
   failed |-> {}, errorType |-> "", errorNames |-> {}]

\* asyncLock.acquire(key, fn): fn runs when every earlier acquire of the key
\* has finished
Enqueue(c, key) == [asyncLock EXCEPT ![key] = Append(@, c)]
HoldsLock(c, key) == asyncLock[key] # <<>> /\ Head(asyncLock[key]) = c
Release(key) == [asyncLock EXCEPT ![key] = Tail(@)]

Returns0(call) == [call EXCEPT !.pc = "returned"]
Raises(call, type, names) ==
  [call EXCEPT !.pc = "thrown", !.errorType = type, !.errorNames = names]

\* ---- getAllPlugins ----
\* if (this.loadedPlugins) { return this.loadedPlugins }, then the lock
CallGetAllPlugins(c) ==
  LET call == [NoCall EXCEPT !.op = "getAllPlugins", !.doneAtCall = loadedPlugins,
                             !.checkedBefore = TRUE]
  IN /\ gardenCalls[c].pc = "idle"
     /\ IF loadedPlugins
        THEN /\ gardenCalls' = [gardenCalls EXCEPT ![c] = Returns0(call)]
             /\ UNCHANGED asyncLock
        ELSE /\ gardenCalls' =
                  [gardenCalls EXCEPT ![c] = [call EXCEPT !.pc = "waiting", !.queued = TRUE]]
             /\ asyncLock' = Enqueue(c, "load-plugins")
     /\ UNCHANGED <<loadedPlugins, resolvedProviders, configsScanned,
                    projectResources, registry, addCounts, bodyRuns>>

\* under the lock: if (this.loadedPlugins) { return }, else the plugins are
\* loaded
EnterLoadPlugins(c) ==
  LET call == [gardenCalls[c] EXCEPT !.checkedAfter = TRUE]
  IN /\ gardenCalls[c].op = "getAllPlugins"
     /\ gardenCalls[c].pc = "waiting"
     /\ HoldsLock(c, "load-plugins")
     /\ IF loadedPlugins
        THEN /\ gardenCalls' = [gardenCalls EXCEPT ![c] = Returns0(call)]
             /\ asyncLock' = Release("load-plugins")
             /\ UNCHANGED bodyRuns
        ELSE /\ gardenCalls' = [gardenCalls EXCEPT ![c] = [call EXCEPT !.pc = "body"]]
             /\ bodyRuns' = [bodyRuns EXCEPT !["load-plugins"] = @ + 1]
             /\ UNCHANGED asyncLock
     /\ UNCHANGED <<loadedPlugins, resolvedProviders, configsScanned,
                    projectResources, registry, addCounts>>

\* loadAndResolvePlugins has settled
FinishLoadPlugins(c, loaded) ==
  /\ gardenCalls[c].op = "getAllPlugins"
  /\ gardenCalls[c].pc = "body"
  /\ IF loaded
     THEN /\ loadedPlugins' = TRUE
          /\ gardenCalls' = [gardenCalls EXCEPT ![c] = Returns0(@)]
     ELSE /\ UNCHANGED loadedPlugins
          /\ gardenCalls' = [gardenCalls EXCEPT ![c] = Raises(@, "PluginError", {})]
  /\ asyncLock' = Release("load-plugins")
  /\ UNCHANGED <<resolvedProviders, configsScanned, projectResources, registry,
                 addCounts, bodyRuns>>

\* ---- resolveProviders ----
\* names of the call: a list of providers, or undefined for all of them
ProviderBatches == (SUBSET ProviderNames) \ {{}}

\* the lock is taken without looking at resolvedProviders first
CallResolveProviders(c, names) ==
  /\ gardenCalls[c].pc = "idle"
  /\ gardenCalls' =
       [gardenCalls EXCEPT ![c] =
          [NoCall EXCEPT !.op = "resolveProviders", !.names = names,
                         !.doneAtCall = (names \subseteq resolvedProviders),
                         !.pc = "waiting", !.queued = TRUE]]
  /\ asyncLock' = Enqueue(c, "resolve-providers")
  /\ UNCHANGED <<loadedPlugins, resolvedProviders, configsScanned,
                 projectResources, registry, addCounts, bodyRuns>>

\* if (alreadyResolvedProviders.length === names.length) { return }
EnterResolveProviders(c) ==
  LET call == [gardenCalls[c] EXCEPT !.checkedAfter = TRUE]
  IN /\ gardenCalls[c].op = "resolveProviders"
     /\ gardenCalls[c].pc = "waiting"
     /\ HoldsLock(c, "resolve-providers")
     /\ IF call.names \subseteq resolvedProviders
        THEN /\ gardenCalls' = [gardenCalls EXCEPT ![c] = Returns0(call)]
             /\ asyncLock' = Release("resolve-providers")
             /\ UNCHANGED bodyRuns
        ELSE /\ gardenCalls' = [gardenCalls EXCEPT ![c] = [call EXCEPT !.pc = "body"]]
             /\ bodyRuns' = [bodyRuns EXCEPT !["resolve-providers"] = @ + 1]
             /\ UNCHANGED asyncLock
     /\ UNCHANGED <<loadedPlugins, resolvedProviders, configsScanned,
                    projectResources, registry, addCounts>>

\* every provider that resolved is kept although another one failed
CacheTheResolved(batch, failed) == batch \ failed

\* the throw for failed.length comes before anything is stored
ProvidersToStore(batch, failed) == IF failed # {} THEN {} ELSE batch

\* putting resources into their registries in the given order, up to the
\* first one whose name is taken
RECURSIVE AddResources(_, _)
AddResources(state, list) ==
  IF list = <<>> \/ state.thrown THEN state
  ELSE IF Head(list) \in state.registry
       THEN [state EXCEPT !.thrown = TRUE]
       ELSE AddResources(
              [state EXCEPT !.registry = @ \cup {Head(list)},
                            !.counts[Head(list)] = @ + 1],
              Tail(list))

\* the plugins are there (getAllPlugins inside the body), the tasks of the
\* batch have been processed and failed holds the providers whose task
\* ended with an error
FinishResolveProviders(c, failed) ==
  LET call == [gardenCalls[c] EXCEPT !.failed = failed]
      batch == call.names
      stored == ProvidersToStore(batch, failed)
      moduleConfigs ==
        SetToSeq(UNION {ProviderModuleConfigs(name) : name \in stored})
      added == AddResources([registry |-> registry, counts |-> addCounts,
                             thrown |-> FALSE], moduleConfigs)
  IN /\ call.op = "resolveProviders"
     /\ call.pc = "body"
     /\ failed \subseteq batch
     /\ asyncLock["load-plugins"] = <<>>
     /\ loadedPlugins' = TRUE
     /\ registry' = added.registry
     /\ addCounts' = added.counts
     /\ resolvedProviders' =
          IF added.thrown THEN resolvedProviders ELSE resolvedProviders \cup stored
     /\ gardenCalls' =
          [gardenCalls EXCEPT ![c] =
             IF failed # {}
             THEN Raises(call, "PluginError", failed)
             ELSE IF added.thrown THEN Raises(call, "ConfigurationError", {})
             ELSE Returns0(call)]
     /\ asyncLock' = Release("resolve-providers")
     /\ bodyRuns' = IF loadedPlugins THEN bodyRuns
                    ELSE [bodyRuns EXCEPT !["load-plugins"] = @ + 1]
     /\ UNCHANGED <<configsScanned, projectResources>>

\* ---- scanAndAddConfigs ----
\* the body is run whoever has run it before
ScanNeverDone(force) == FALSE

\* the lock is asked for whatever configsScanned holds
NotScannedBeforeLock(force) == FALSE

\* if (this.configsScanned && !force) { return }, before the lock
ScannedBeforeLock(force) == configsScanned /\ ~force

\* the same test under the lock
ScannedUnderLock(force) == configsScanned /\ ~force

CallScanAndAddConfigs(c, force) ==
  LET call == [NoCall EXCEPT !.op = "scanAndAddConfigs", !.force = force,
                             !.doneAtCall = configsScanned, !.checkedBefore = TRUE]
  IN /\ gardenCalls[c].pc = "idle"
     /\ IF ScannedBeforeLock(force)
        THEN /\ gardenCalls' = [gardenCalls EXCEPT ![c] = Returns0(call)]
             /\ UNCHANGED asyncLock
        ELSE /\ gardenCalls' =
                  [gardenCalls EXCEPT ![c] = [call EXCEPT !.pc = "waiting", !.queued = TRUE]]
             /\ asyncLock' = Enqueue(c, "scan-configs")
     /\ UNCHANGED <<loadedPlugins, resolvedProviders, configsScanned,
                    projectResources, registry, addCounts, bodyRuns>>

EnterScanConfigs(c) ==
  LET call == [gardenCalls[c] EXCEPT !.checkedAfter = TRUE]
  IN /\ gardenCalls[c].op = "scanAndAddConfigs"
     /\ gardenCalls[c].pc = "waiting"
     /\ HoldsLock(c, "scan-configs")
     /\ IF ScannedUnderLock(call.force)
        THEN /\ gardenCalls' = [gardenCalls EXCEPT ![c] = Returns0(call)]
             /\ asyncLock' = Release("scan-configs")
             /\ UNCHANGED bodyRuns
        ELSE /\ gardenCalls' = [gardenCalls EXCEPT ![c] = [call EXCEPT !.pc = "body"]]
             /\ bodyRuns' = [bodyRuns EXCEPT !["scan-configs"] = @ + 1]
             /\ UNCHANGED asyncLock
     /\ UNCHANGED <<loadedPlugins, resolvedProviders, configsScanned,
                    projectResources, registry, addCounts>>

\* modules, then workflows, then actions
IsKind(kind, resource) == resource.kind = kind
InOrderOfAdding(found) ==
  SelectSeq(found, LAMBDA r : IsKind("Module", r))
    \o SelectSeq(found, LAMBDA r : IsKind("Workflow", r))
    \o SelectSeq(found, LAMBDA r : ~IsKind("Module", r) /\ ~IsKind("Workflow", r))

\* the files have been found and loaded, or that has failed; what was found
\* is added and configsScanned is set
FinishScan(c, loaded) ==
  LET call == gardenCalls[c]
      added == AddResources([registry |-> registry, counts |-> addCounts,
                             thrown |-> FALSE], InOrderOfAdding(projectResources))
  IN /\ call.op = "scanAndAddConfigs"
     /\ call.pc = "body"
     /\ IF ~loaded
        THEN /\ gardenCalls' = [gardenCalls EXCEPT ![c] = Raises(call, "Error", {})]
             /\ UNCHANGED <<registry, addCounts, configsScanned>>
        ELSE /\ registry' = added.registry
             /\ addCounts' = added.counts
             /\ configsScanned' = (configsScanned \/ ~added.thrown)
             /\ gardenCalls' =
                  [gardenCalls EXCEPT ![c] =
                     IF added.thrown THEN Raises(call, "ConfigurationError", {})
                     ELSE Returns0(call)]
     /\ asyncLock' = Release("scan-configs")
     /\ UNCHANGED <<loadedPlugins, resolvedProviders, projectResources, bodyRuns>>

(***************************************************************************)
(* The hide command of the dev console                                     *)
(***************************************************************************)
\* longest list of names given to the hide command
MaxNames == 2

\* the choices of the type argument; NoType is "", its default
LogType == <<"l", "o", "g">>
LogsType == <<"l", "o", "g", "s">>
SyncType == <<"s", "y", "n", "c">>
SyncsType == <<"s", "y", "n", "c", "s">>
LocalType == <<"l", "o", "c", "a", "l">>
NoType == <<>>
TypeChoices == {LogType, LogsType, SyncType, SyncsType, LocalType, NoType}

\* the monitors there may be: a type and the key of its Deploy, and the
\* names a caller may give, globs among them
MonitorKeys == { <<"a">>, <<"a", "b">> }
AllMonitors == [type : {LogType, SyncType, LocalType}, key : MonitorKeys]
NamePatterns == { <<"*">>, <<"a">>, <<"a", "*">>, <<"b">> }
NameLists == UNION {[1..n -> NamePatterns] : n \in 0..MaxNames}
HideArgs ==
  [type : TypeChoices, given : {TRUE}, names : NameLists]
    \cup [type : TypeChoices, given : {FALSE}, names : {<<>>}]

\* a type that is used as it was given
KeepPlural(type) == type

\* "Support plurals as aliases": type.slice(0, -1) for "logs" and "syncs"
Singular(type) ==
  IF type \in {LogsType, SyncsType} THEN SubSeq(type, 1, Len(type) - 1) ELSE type

\* micromatch isMatch(key, names): the key matches one of the globs
IsMatch(key, names) == \E i \in 1..Len(names) : Minimatch(key, names[i])

NoHideCall ==
  [called |-> FALSE, args |-> [type |-> NoType, given |-> FALSE, names |-> <<>>],
   active |-> {}, stopped |-> {}]

\* HideCommand.action: garden.monitors.stop for each active monitor the
\* arguments select
HideCommandAction(args) ==
  LET type == Singular(args.type)
      names == IF ~args.given \/ Len(args.names) = 0 THEN << <<"*">> >> ELSE args.names
      selected == {monitor \in monitors :
                     /\ type = NoType \/ monitor.type = type
                     /\ IsMatch(monitor.key, names)}
  IN  /\ ~hideCall.called
      /\ monitors' = monitors \ selected
      /\ hideCall' = [called |-> TRUE, args |-> args, active |-> monitors,
                      stopped |-> selected]

(***************************************************************************)
(* Requests to the server                                                  *)
(***************************************************************************)
\* the paths of the file system: one that does not exist, a file, a
\* directory without a project config and a project; "" is no path
RequestPaths == {"", "/missing", "/file", "/empty", "/project"}
PathExists(path) == path \in {"/file", "/empty", "/project"}
IsDirectory(path) == path \in {"/empty", "/project"}

\* findProjectConfig({path}): the project config found there, or undefined
NoProjectConfig == [path |-> ""]
FindProjectConfig(path) ==
  IF path = "/project" THEN [path |-> "/project"] ELSE NoProjectConfig

\* request.command: none, blanks, known and unknown commands, with and
\* without an option the command does not take
RequestCommands ==
  { <<>>, <<" ">>, <<"a">>, <<" ", "a", " ">>, <<"b">>, <<"a", " ", "-">>,
    <<"a", "a", " ", " ", "-">> }
StringArguments == { <<>>, << <<"-">> >> }
Requests ==
  [projectRoot : RequestPaths, command : RequestCommands,
   stringArguments : StringArguments, defaultProjectRoot : {"/empty", "/project"}]

\* stringArgv(text): the words of the text
StringArgv(text) == SelectSeq(Split(text), LAMBDA word : word # <<>>)

\* parseCliArgs and processCliArgs throw for an option the command does not
\* take: here the word "-"
ParseFails(rest) == \E i \in 1..Len(rest) : rest[i] = <<"-">>

\* what resolveRequest returns: fail(code, message, detail), or the garden
\* and the command with error: null
NoDetail == <<>>
Fail(code, message, detail) ==
  [error |-> [code |-> code, message |-> message, detail |-> detail], garden |-> FALSE]
Resolved == [error |-> [code |-> 0, message |-> "", detail |-> NoDetail], garden |-> TRUE]
NotReturned == [error |-> [code |-> -1, message |-> "", detail |-> NoDetail], garden |-> FALSE]

NoResolve ==
  [pc |-> "idle", projectConfig |-> NoProjectConfig, picked |-> {}, rest |-> <<>>,
   managerCalls |-> <<>>, returned |-> NotReturned]

ReturnFrom(call, value) == [call EXCEPT !.pc = "returned", !.returned = value]

\* resolveRequest, up to the project config
ResolveProjectRoot ==
  /\ resolve.pc = "root"
  /\ resolve' =
       IF request.projectRoot # ""
       THEN IF ~PathExists(request.projectRoot)
            THEN ReturnFrom(resolve, Fail(400, "projectRoot does not exist", NoDetail))
            ELSE IF ~IsDirectory(request.projectRoot)
            THEN ReturnFrom(resolve, Fail(400, "projectRoot is not a directory", NoDetail))
            ELSE IF FindProjectConfig(request.projectRoot) = NoProjectConfig
            THEN ReturnFrom(resolve,
                   Fail(400, "projectRoot does not contain a project config", NoDetail))
            ELSE [resolve EXCEPT !.pc = "command",
                                 !.projectConfig = FindProjectConfig(request.projectRoot)]
       ELSE IF FindProjectConfig(request.defaultProjectRoot) = NoProjectConfig
       THEN ReturnFrom(resolve, Fail(400, "could not find a project", NoDetail))
       ELSE [resolve EXCEPT !.pc = "command",
                            !.projectConfig = FindProjectConfig(request.defaultProjectRoot)]
  /\ UNCHANGED request

\* a request whose command is taken as found whatever pickCommand says
PickUnchecked ==
  /\ resolve.pc = "command"
  /\ resolve' = [resolve EXCEPT !.pc = "garden"]
  /\ UNCHANGED request

\* resolveRequest, from "if (request.command)" to the clone of the command
PickRequestCommand ==
  /\ resolve.pc = "command"
  /\ resolve' =
       IF request.command = <<>>
       THEN [resolve EXCEPT !.pc = "garden"]
       ELSE LET args == StringArgv(Trim(request.command)) \o request.stringArguments
                called == [resolve EXCEPT
                             !.managerCalls = Append(@, "ensureProjectRootContext")]
            IN  IF PickCommand(args) = {}
                THEN ReturnFrom(called, Fail(404, "could not find command", NoDetail))
                ELSE [called EXCEPT
                        !.pc = "parse",
                        !.picked = PickCommand(args),
                        !.rest = SubSeq(args, 2, Len(args))]
  /\ UNCHANGED request

\* resolveRequest: the try block around parseCliArgs and processCliArgs
ParseRequestArguments ==
  /\ resolve.pc = "parse"
  /\ resolve' =
       IF ParseFails(resolve.rest)
       THEN ReturnFrom(resolve, Fail(400, "invalid arguments for command", <<"-">>))
       ELSE [resolve EXCEPT !.pc = "garden"]
  /\ UNCHANGED request

\* resolveRequest, from manager.getGardenForRequest to the return
GetGardenForRequest ==
  /\ resolve.pc = "garden"
  /\ resolve' =
       ReturnFrom([resolve EXCEPT !.managerCalls = Append(@, "getGardenForRequest")],
                  Resolved)
  /\ UNCHANGED request

(***************************************************************************)
(* The file watcher                                                        *)
(***************************************************************************)
\* the directories of the project and what readdir finds in each; a path is
\* the sequence of its segments
Readdir(path) ==
  IF path = <<"p", "a">> THEN {"garden.yml", "src"}
  ELSE IF path = <<"p", "b">> THEN {"garden.yml", "b.yml", "main.go"}
  ELSE IF path = <<"p", "c">> THEN {"Dockerfile"}
  ELSE {}

\* path.resolve(path, relPath)
ResolvePath(path, relPath) == Append(path, relPath)

\* modules and actions that may be skipped: the directory (path of a
\* module, basePath() of an action) and the config path, <<>> when there
\* is none
NoConfigPath == <<>>
Skippable(path, configFile) ==
  [path |-> path,
   configPath |-> IF configFile = "" THEN NoConfigPath ELSE ResolvePath(path, configFile)]
SkipModules ==
  { Skippable(<<"p", "a">>, "garden.yml"), Skippable(<<"p", "b">>, "garden.yml"),
    Skippable(<<"p", "c">>, "") }
SkipActions ==
  { Skippable(<<"p", "a">>, "garden.yml"), Skippable(<<"p", "b">>, "b.yml"),
    Skippable(<<"p", "b">>, "garden.yml"), Skippable(<<"p", "c">>, "") }

NoWatcher == [started |-> FALSE, skipModules |-> {}, skipActions |-> {}, skipPaths |-> {}]

\* Garden.startWatcher({skipModules, skipActions})
StartWatcher(skipModules, skipActions) ==
  LET skipDirectories == {skipped.path : skipped \in skipModules \cup skipActions}
      configPaths ==
        {skipped.configPath : skipped \in skipModules \cup skipActions} \ {NoConfigPath}
      skipPaths ==
        UNION { {absPath \in {ResolvePath(path, relPath) : relPath \in Readdir(path)} :
                   absPath \in configPaths} : path \in skipDirectories }
  IN  watcher' = [started |-> TRUE, skipModules |-> skipModules,
                  skipActions |-> skipActions, skipPaths |-> skipPaths]

(***************************************************************************)
(* The events of the Deploy router                                         *)
(***************************************************************************)
\* calls of the router that may be under way at once
MaxRouterCalls == 3
RouterCallers == 1..MaxRouterCalls
RouterHandlers == {"getStatus", "deploy"}

\* the payload of a deployStatus event
DeployStatusEvent(actionUid, state, statusState) ==
  [name |-> "deployStatus", actionUid |-> actionUid, state |-> state,
   status |-> [state |-> statusState]]

\* the event before the plugin handler is called
InProgressEvent(handler, actionUid) ==
  IF handler = "getStatus" THEN DeployStatusEvent(actionUid, "getting-status", "unknown")
  ELSE DeployStatusEvent(actionUid, "processing", "deploying")

\* a completion that says "ready" for either handler
ReadyState(handler) == "ready"

\* the state of the event after the plugin handler has returned a ready
\* status
CompletedState(handler) == IF handler = "getStatus" THEN "cached" ELSE "ready"
CompletionEvent(handler, actionUid) ==
  DeployStatusEvent(actionUid, CompletedState(handler), "ready")

NoRouterCall == [handler |-> "none", pc |-> "idle", actionUid |-> 0]

\* actionRouter.deploy.getStatus / deploy is called: the call takes a fresh
\* actionUid and emits the first event
CallDeployRouter(c, handler) ==
  /\ routerCalls[c].pc = "idle"
  /\ routerCalls' = [routerCalls EXCEPT
                       ![c] = [handler |-> handler, pc |-> "handler", actionUid |-> nextUid]]
  /\ nextUid' = nextUid + 1
  /\ eventLog' = Append(eventLog, InProgressEvent(handler, nextUid))

\* the plugin handler returns a ready status: the call emits the second
\* event and returns
DeployRouterReturns(c) ==
  /\ routerCalls[c].pc = "handler"
  /\ routerCalls' = [routerCalls EXCEPT ![c].pc = "returned"]
  /\ eventLog' =
       Append(eventLog, CompletionEvent(routerCalls[c].handler, routerCalls[c].actionUid))
  /\ UNCHANGED nextUid

(***************************************************************************)
(* Specifications                                                          *)
(***************************************************************************)
FlashIdle ==
  /\ messageLine = NoMessage /\ messageTimeout = NoTimer /\ timers = {}
  /\ now = 0 /\ running = {} /\ invoked = NoCommand

EditorIdle ==
  /\ currentCommand = <<>>
  /\ cursorPosition = 0
  /\ historyIndex = 0
  /\ suggestionIndex = -1
  /\ autocompletingFrom = -1
  /\ commandHistory = <<>>
  /\ rtPhase = "typing" /\ rtTyped = 0 /\ rtErased = 0
  /\ floated = FALSE
  /\ tabList = <<>> /\ tabFrom = -1 /\ tabPresses = 0
  /\ lastKey = "none"
  /\ FlashIdle

ModesIdle ==
  /\ modeInput = [sync |-> <<>>, local |-> <<>>]
  /\ supportedModes = SupportedByDefault
  /\ modeWarnings = {}
  /\ modeResult = [key \in Keys |-> NotApplied]

GraphIdle ==
  /\ pc = "called"
  /\ actionModes = [sync |-> <<>>, local |-> <<>>]
  /\ configs = <<>>
  /\ groupConfigs = <<>>
  /\ gardenActionConfigs = EmptyMap
  /\ actionConfigs = EmptyMap
  /\ configsByKey = EmptyMap
  /\ pending = {}
  /\ graph = EmptyMap
  /\ pluginsLeft = 0
  /\ error = NoError
  /\ configGraph = NoGraph
  /\ validateCalls = 0
  /\ augmentUpdates = 0

RunResultsIdle ==
  /\ configMaps = EmptyMap
  /\ lastCall = Idle

ExecIdle ==
  /\ clock = 0
  /\ execCall = NoExecCall

ManifestsIdle == manifestCall = NoManifestCall

GardenIdle ==
  /\ gardenCalls = [c \in Callers |-> NoCall]
  /\ asyncLock = [key \in LockKeys |-> <<>>]
  /\ loadedPlugins = FALSE
  /\ resolvedProviders = {}
  /\ configsScanned = FALSE
  /\ projectResources = <<>>
  /\ registry = {}
  /\ addCounts = [resource \in AllResources |-> 0]
  /\ bodyRuns = [key \in LockKeys |-> 0]

\* the parts outside the line editor, the modes, the graph and the run results
MonitorsIdle == monitors = {} /\ hideCall = NoHideCall
RequestsIdle ==
  /\ request = [projectRoot |-> "", command |-> <<>>, stringArguments |-> <<>>,
                defaultProjectRoot |-> "/project"]
  /\ resolve = NoResolve
WatcherIdle == watcher = NoWatcher
RouterIdle ==
  /\ eventLog = <<>>
  /\ routerCalls = [c \in RouterCallers |-> NoRouterCall]
  /\ nextUid = 1
LaterIdle == MonitorsIdle /\ RequestsIdle /\ WatcherIdle /\ RouterIdle
OthersIdle == ExecIdle /\ ManifestsIdle /\ GardenIdle /\ LaterIdle /\ ConsoleIdle
otherVars == <<execVars, manifestVars, gardenVars, laterVars, consoleVars>>

InitCommandLine ==
  EditorIdle /\ ModesIdle /\ GraphIdle /\ caller = "none" /\ RunResultsIdle /\ OthersIdle
OnlyEditor == UNCHANGED <<modeVars, warnVars, graphVars, runResultVars, otherVars>>
NextCommandLine ==
  \/ \E char \in Chars : CharacterKey(char) /\ NoKeyKept /\ ObserveCharacter /\ NoTab /\ NoFloat /\ NoFlash /\ OnlyEditor
  \/ BackspaceKey /\ NoKeyKept /\ ObserveBackspace /\ NoTab /\ NoFloat /\ NoFlash /\ OnlyEditor
  \/ DeleteKey /\ NoKeyKept /\ ObserveOtherKey /\ NoTab /\ NoFloat /\ NoFlash /\ OnlyEditor
  \/ LeftArrowKey /\ NoKeyKept /\ ObserveOtherKey /\ NoTab /\ NoFloat /\ NoFlash /\ OnlyEditor
  \/ RightArrowKey /\ NoKeyKept /\ ObserveOtherKey /\ NoTab /\ NoFloat /\ NoFlash /\ OnlyEditor
  \/ JumpToStartKey /\ NoKeyKept /\ ObserveOtherKey /\ NoTab /\ NoFloat /\ NoFlash /\ OnlyEditor
  \/ JumpToEndKey /\ NoKeyKept /\ ObserveOtherKey /\ NoTab /\ NoFloat /\ NoFlash /\ OnlyEditor
  \/ tabPresses < MaxTabs /\ TabKey /\ NoKeyKept /\ ObserveOtherKey /\ ObserveTab /\ NoFloat /\ NoFlash /\ OnlyEditor
  \/ UpArrowKey /\ NoKeyKept /\ ObserveOtherKey /\ NoTab /\ NoFloat /\ NoFlash /\ OnlyEditor
  \/ DownArrowKey /\ NoKeyKept /\ ObserveOtherKey /\ NoTab /\ NoFloat /\ NoFlash /\ OnlyEditor
  \/ CtrlUKey /\ NoKeyKept /\ ObserveOtherKey /\ NoTab /\ NoFloat /\ NoFlash /\ OnlyEditor
  \/ CtrlKKey /\ NoKeyKept /\ ObserveOtherKey /\ NoTab /\ NoFloat /\ NoFlash /\ OnlyEditor
  \/ HandleReturn /\ NoKeyKept /\ ObserveOtherKey /\ NoTab /\ ObserveReturn /\ OnlyEditor
SpecCommandLine == InitCommandLine /\ [][NextCommandLine]_vars

\* the keystrokes alone, with the key of each step kept
OnlyShell ==
  UNCHANGED <<rtPhase, rtTyped, rtErased, floated, tabList, tabFrom, tabPresses,
              modeVars, warnVars, graphVars, runResultVars, execVars, manifestVars,
              gardenVars, laterVars>>
OnlyKeys == OnlyShell /\ UNCHANGED consoleVars
NextKeys ==
  \/ \E char \in Chars : CharacterKey(char) /\ Pressed("other") /\ NoFlash /\ OnlyKeys
  \/ BackspaceKey /\ Pressed("other") /\ NoFlash /\ OnlyKeys
  \/ DeleteKey /\ Pressed("other") /\ NoFlash /\ OnlyKeys
  \/ LeftArrowKey /\ Pressed("other") /\ NoFlash /\ OnlyKeys
  \/ RightArrowKey /\ Pressed("other") /\ NoFlash /\ OnlyKeys
  \/ JumpToStartKey /\ Pressed("other") /\ NoFlash /\ OnlyKeys
  \/ JumpToEndKey /\ Pressed("other") /\ NoFlash /\ OnlyKeys
  \/ TabKey /\ Pressed("other") /\ NoFlash /\ OnlyKeys
  \/ UpArrowKey /\ Pressed("up") /\ NoFlash /\ OnlyKeys
  \/ DownArrowKey /\ Pressed("down") /\ NoFlash /\ OnlyKeys
  \/ CtrlUKey /\ Pressed("ctrl-u") /\ NoFlash /\ OnlyKeys
  \/ CtrlKKey /\ Pressed("ctrl-k") /\ NoFlash /\ OnlyKeys
  \/ HandleReturn /\ Pressed("return") /\ OnlyKeys
SpecKeys == InitCommandLine /\ [][NextKeys]_vars

\* a line in the buffer, the actions its returns start, the timers of the
\* flashes and the clock
Lines == {line \in UNION {[1..n -> Chars] : n \in 0..MaxLen} : TRUE}
InitShell ==
  /\ \E line \in Lines :
       /\ currentCommand = line /\ cursorPosition = Len(line)
       /\ commandLine = Rendered(line, Len(line), TRUE)
  /\ historyIndex = 0 /\ suggestionIndex = -1 /\ autocompletingFrom = -1
  /\ commandHistory = <<>>
  /\ rtPhase = "off" /\ rtTyped = 0 /\ rtErased = 0
  /\ floated = FALSE
  /\ tabList = <<>> /\ tabFrom = -1 /\ tabPresses = 0
  /\ lastKey = "other"
  /\ FlashIdle
  /\ enabled = TRUE /\ showCursor = TRUE /\ disabledWith = ""
  /\ settled = [command |-> NoCommand, outcome |-> ""]
  /\ ModesIdle /\ GraphIdle /\ caller = "none" /\ RunResultsIdle
  /\ ExecIdle /\ ManifestsIdle /\ GardenIdle /\ LaterIdle
NoKey == Pressed("none") /\ UNCHANGED editorVars
NextShell ==
  \/ KeyStroke(UpArrowKey /\ NoFlash, historyIndex > 0) /\ Pressed("up") /\ OnlyShell
  \/ KeyStroke(HandleReturn, ~IsBlank(currentCommand) /\ CommandFound)
       /\ Pressed("return") /\ OnlyShell
  \/ \E method \in FlashMethods, duration \in Durations :
       FlashByAction(method, duration) /\ NotSettled /\ NoKey /\ OnlyShell
  \/ \E command \in CommandPaths, outcome \in Outcomes :
       ActionSettles(command, outcome) /\ Settled(command, outcome) /\ NoKey /\ OnlyShell
  \/ \E timer \in timers : TimerFires(timer) /\ NotSettled /\ NoKey /\ OnlyShell
  \/ Tick /\ NotSettled /\ NoKey /\ OnlyShell
SpecShell == InitShell /\ [][NextShell]_vars

\* keys that change the buffer, the cursor, the autocomplete state and the
\* history, the blinking cursor, and disable() and enable() as the dev
\* command or an action may call them
InitConsole == InitCommandLine
TypedChars == {"a"}
NextConsole ==
  \/ \E char \in TypedChars :
       KeyStroke(CharacterKey(char) /\ NoFlash, TRUE) /\ Pressed("other") /\ OnlyShell
  \/ KeyStroke(BackspaceKey /\ NoFlash, cursorPosition > 0) /\ Pressed("other") /\ OnlyShell
  \/ KeyStroke(TabKey /\ NoFlash,
               /\ cursorPosition # 0
               /\ Len(GetSuggestions(IF autocompletingFrom > -1
                                     THEN autocompletingFrom ELSE cursorPosition)) > 0)
       /\ Pressed("other") /\ OnlyShell
  \/ KeyStroke(UpArrowKey /\ NoFlash, historyIndex > 0) /\ Pressed("other") /\ OnlyShell
  \/ KeyStroke(HandleReturn, ~IsBlank(currentCommand) /\ CommandFound)
       /\ Pressed("other") /\ OnlyShell
  \/ Blink /\ NoFlash /\ Pressed("none") /\ OnlyShell
  \/ \E message \in DisableMessages :
       Disable(message) /\ NoFlash /\ Pressed("none") /\ OnlyShell
  \/ Enable /\ NoFlash /\ Pressed("none") /\ OnlyShell
SpecConsole == InitConsole /\ [][NextConsole]_vars


InitModes ==
  /\ EditorIdle
  /\ OthersIdle
  /\ GraphIdle /\ caller = "none"
  /\ RunResultsIdle
  /\ modeInput \in ActionModeMaps
  /\ modeResult = [key \in Keys |-> NotApplied]
  /\ supportedModes \in SupportedModes
  /\ modeWarnings = {}
NextModes ==
  \E key \in Keys :
    ApplyActionMode(key)
      /\ UNCHANGED <<editorVars, observerVars, flashVars, graphVars, runResultVars, otherVars>>
SpecModes == InitModes /\ [][NextModes]_vars

InitGraph ==
  /\ EditorIdle
  /\ OthersIdle
  /\ ModesIdle
  /\ RunResultsIdle
  /\ caller \in {"getConfigGraph", "actionConfigsToGraph"}
  /\ pc = (IF caller = "getConfigGraph" THEN "scan" ELSE "called")
  /\ actionModes \in GraphActionModes
  /\ configs = <<>>
  /\ groupConfigs = <<>>
  /\ gardenActionConfigs = EmptyMap
  /\ actionConfigs = EmptyMap
  /\ configsByKey = EmptyMap
  /\ pending = {}
  /\ graph = EmptyMap
  /\ pluginsLeft = 0
  /\ error = NoError
  /\ configGraph = NoGraph
  /\ validateCalls = 0
  /\ augmentUpdates = 0
OnlyGraph == UNCHANGED <<editorVars, observerVars, flashVars, modeVars, runResultVars, otherVars>>
NoWarning == UNCHANGED warnVars
NextGraph ==
  \/ /\ OnlyGraph /\ NoWarning
     /\ \E config \in ScannedConfigs : AddActionConfig(config)
  \/ ConfigsScanned /\ NoWarning /\ OnlyGraph
  \/ ResolveActionConfigs /\ NoWarning /\ OnlyGraph
  \/ CallActionConfigsToGraph /\ NoWarning /\ OnlyGraph
  \/ /\ OnlyGraph
     /\ \E key \in pending : ProcessConfig(key)
  \/ ValidateBuiltGraph /\ NoWarning /\ OnlyGraph
  \/ SkipPlugin /\ NoWarning /\ OnlyGraph
  \/ AugmentGraph /\ NoWarning /\ OnlyGraph
  \/ ReturnConfigGraph /\ NoWarning /\ OnlyGraph
SpecGraph == InitGraph /\ [][NextGraph]_vars

\* the namespace starts with what earlier releases have left in it
InitRunResults ==
  /\ EditorIdle
  /\ OthersIdle
  /\ ModesIdle
  /\ GraphIdle /\ caller = "none"
  /\ \E found \in SUBSET RunResultKeys :
       configMaps \in [found -> {SerializeValues(r) : r \in EarlierResults}]
  /\ lastCall = Idle
OnlyRunResults ==
  UNCHANGED <<editorVars, observerVars, flashVars, modeVars, warnVars, graphVars, otherVars>>
NextRunResults ==
  \/ /\ OnlyRunResults
     /\ \E action \in RunActions, answer \in {NoFailure, NotFound} \cup BackendFailures :
          K8sGetRunResult(action, answer)
  \/ /\ OnlyRunResults
     /\ \E action \in RunActions, result \in RunResults,
           answer \in {NoFailure} \cup BackendFailures :
          StoreRunResult(action, result, answer)
  \/ /\ OnlyRunResults
     /\ \E action \in RunActions, answer \in {NoFailure, NotFound} \cup BackendFailures :
          ClearTaskResult(action, answer)
SpecRunResults == InitRunResults /\ [][NextRunResults]_vars

\* the parts the handlers of the exec actions leave alone
FirstIdle ==
  EditorIdle /\ ConsoleIdle /\ ModesIdle /\ GraphIdle /\ caller = "none" /\ RunResultsIdle
firstVars ==
  <<editorVars, observerVars, flashVars, consoleVars, modeVars, warnVars, graphVars,
    runResultVars>>

AllCommandResults ==
  {NotCalled, Throws}
    \cup {Returns(exitCode, all) : exitCode \in {0, 1}, all \in CommandOutputs}

InitExec == FirstIdle /\ OthersIdle
OnlyExec == UNCHANGED <<firstVars, manifestVars, gardenVars, laterVars>>
NextExec ==
  \/ /\ OnlyExec
     /\ \E command \in Commands, commandResult \in AllCommandResults,
           elapsed \in 0..MaxClock :
          ExecRunHandler(command, commandResult, elapsed)
  \/ /\ OnlyExec
     /\ \E command \in Commands, commandResult \in AllCommandResults,
           elapsed \in 0..MaxClock :
          ExecTestHandler(command, commandResult, elapsed)
SpecExec == InitExec /\ [][NextExec]_vars

InitManifests == FirstIdle /\ OthersIdle
NextManifests ==
  \E spec \in ManifestSpecs, fileOutcome \in FileOutcomes,
     kustomizeOutcome \in KustomizeOutcomes :
    /\ ReadManifests(spec, fileOutcome, kustomizeOutcome)
    /\ UNCHANGED <<firstVars, execVars, gardenVars, laterVars>>
SpecManifests == InitManifests /\ [][NextManifests]_vars

\* a fresh Garden (constructor, garden.ts:314-370) over a project
InitGarden ==
  /\ FirstIdle /\ ExecIdle /\ ManifestsIdle /\ LaterIdle
  /\ gardenCalls = [c \in Callers |-> NoCall]
  /\ asyncLock = [key \in LockKeys |-> <<>>]
  /\ loadedPlugins = FALSE
  /\ resolvedProviders = {}
  /\ configsScanned = FALSE
  /\ projectResources \in ProjectResources
  /\ registry = {}
  /\ addCounts = [resource \in AllResources |-> 0]
  /\ bodyRuns = [key \in LockKeys |-> 0]
OnlyGarden == UNCHANGED <<firstVars, execVars, manifestVars, laterVars>>
NextGarden ==
  \/ OnlyGarden /\ \E c \in Callers : CallGetAllPlugins(c)
  \/ OnlyGarden /\ \E c \in Callers : EnterLoadPlugins(c)
  \/ OnlyGarden /\ \E c \in Callers, loaded \in BOOLEAN : FinishLoadPlugins(c, loaded)
  \/ OnlyGarden /\ \E c \in Callers, names \in ProviderBatches : CallResolveProviders(c, names)
  \/ OnlyGarden /\ \E c \in Callers : EnterResolveProviders(c)
  \/ OnlyGarden /\ \E c \in Callers, failed \in SUBSET ProviderNames :
                     FinishResolveProviders(c, failed)
  \/ OnlyGarden /\ \E c \in Callers, force \in BOOLEAN : CallScanAndAddConfigs(c, force)
  \/ OnlyGarden /\ \E c \in Callers : EnterScanConfigs(c)
  \/ OnlyGarden /\ \E c \in Callers, loaded \in BOOLEAN : FinishScan(c, loaded)
SpecGarden == InitGarden /\ [][NextGarden]_vars

\* the parts of the earlier specifications, at rest
EarlierIdle == FirstIdle /\ ExecIdle /\ ManifestsIdle /\ GardenIdle
earlierVars == <<firstVars, execVars, manifestVars, gardenVars>>

\* a dev console with some monitors active, and one hide command
InitMonitors ==
  /\ EarlierIdle /\ RequestsIdle /\ WatcherIdle /\ RouterIdle
  /\ monitors \in SUBSET AllMonitors
  /\ hideCall = NoHideCall
NextMonitors ==
  \E args \in HideArgs : HideCommandAction(args) /\ UNCHANGED <<earlierVars, requestVars, watcherVars, routerVars>>
SpecMonitors == InitMonitors /\ [][NextMonitors]_vars

\* one request, resolved step by step
InitRequests ==
  /\ EarlierIdle /\ MonitorsIdle /\ WatcherIdle /\ RouterIdle
  /\ request \in Requests
  /\ resolve = [NoResolve EXCEPT !.pc = "root"]
OnlyRequests == UNCHANGED <<earlierVars, monitorVars, watcherVars, routerVars>>
NextRequests ==
  \/ ResolveProjectRoot /\ OnlyRequests
  \/ PickRequestCommand /\ OnlyRequests
  \/ ParseRequestArguments /\ OnlyRequests
  \/ GetGardenForRequest /\ OnlyRequests
SpecRequests == InitRequests /\ [][NextRequests]_vars

\* a Garden whose watcher is started, and started again
InitWatcher == EarlierIdle /\ LaterIdle
NextWatcher ==
  \E skipModules \in SUBSET SkipModules, skipActions \in SUBSET SkipActions :
    /\ StartWatcher(skipModules, skipActions)
    /\ UNCHANGED <<earlierVars, monitorVars, requestVars, routerVars>>
SpecWatcher == InitWatcher /\ [][NextWatcher]_vars

\* calls of the Deploy router, one per caller, under way at once
InitRouter == EarlierIdle /\ LaterIdle
OnlyRouter == UNCHANGED <<earlierVars, monitorVars, requestVars, watcherVars>>
NextRouter ==
  \/ OnlyRouter /\ \E c \in RouterCallers, handler \in RouterHandlers :
                     CallDeployRouter(c, handler)
  \/ OnlyRouter /\ \E c \in RouterCallers : DeployRouterReturns(c)
SpecRouter == InitRouter /\ [][NextRouter]_vars

(***************************************************************************)
(* Claims about the line editor                                            *)
(***************************************************************************)
\* C1: starting from an empty buffer with the cursor at 0, typing n
\* characters and then pressing backspace n times leaves the buffer empty
\* and the cursor at 0.
C1_RoundTrip ==
  (rtPhase = "erasing" /\ rtErased = rtTyped)
    => (currentCommand = <<>> /\ cursorPosition = 0)

\* C1 witness: a full buffer was typed and erased again.
C1_Witness ==
  /\ rtPhase = "erasing" /\ rtTyped = MaxLen /\ rtErased = MaxLen
  /\ currentCommand = <<>>

\* C2: submitting a line L that matches a command leaves commandHistory with
\* L exactly once and last, the other entries in their earlier order, and
\* historyIndex equal to the length of commandHistory.
C2_HistoryFloat ==
  [][(HandleReturn /\ ~IsBlank(currentCommand) /\ CommandFound)
       => /\ Occurrences(commandHistory', currentCommand) = 1
          /\ commandHistory'[Len(commandHistory')] = currentCommand
          /\ SelectSeq(commandHistory', LAMBDA e : e # currentCommand)
               = SelectSeq(commandHistory, LAMBDA e : e # currentCommand)
          /\ historyIndex' = Len(commandHistory')]_vars

\* C2 witness: a return has just moved an earlier entry of a history of three
\* lines to its end.
C2_Witness ==
  /\ floated
  /\ Len(commandHistory) = 3
  /\ historyIndex = 3
  /\ currentCommand = <<>>

\* C3: with k suggestions for the typed prefix, the i-th consecutive press of
\* tab puts suggestion ((i - 1) mod k) + 1 into the buffer, and the position
\* the completion started from, and with it the list of suggestions, stays
\* what it was at the first press.
C3_TabCycles ==
  tabPresses >= 1
    => /\ currentCommand = tabList[((tabPresses - 1) % Len(tabList)) + 1]
       /\ autocompletingFrom = tabFrom
       /\ GetSuggestions(autocompletingFrom) = tabList

\* C3 witness: three suggestions, and the fourth press is back at the first.
C3_Witness ==
  /\ Len(tabList) = 3
  /\ tabPresses = 4
  /\ currentCommand = tabList[1]

(***************************************************************************)
(* Claims about the action modes                                           *)
(***************************************************************************)
Entries(patterns) == {patterns[i] : i \in 1..Len(patterns)}
MatchedBy(key, patterns) ==
  \E pattern \in Entries(patterns) : key = pattern \/ Minimatch(key, pattern)

\* C4: an action key matched, exactly or by glob, by at least one entry of
\* the sync list and at least one entry of the local list gets mode local,
\* whatever the order of the entries; a key matched by no entry of either
\* list gets mode default.
C4_LocalOverSync ==
  \A key \in Keys :
    modeResult[key] # NotApplied =>
      /\ (MatchedBy(key, modeInput.sync) /\ MatchedBy(key, modeInput.local))
           => modeResult[key].mode = "local"
      /\ (~MatchedBy(key, modeInput.sync) /\ ~MatchedBy(key, modeInput.local))
           => modeResult[key].mode = "default"

\* C4 witness: deploy.a is under a glob and its own key in both lists, in
\* opposite orders, and was given local mode, while build.a, matched by
\* nothing, was given default mode.
C4_Witness ==
  /\ modeInput.sync = << <<"deploy", ".", "*">>, <<"deploy", ".", "a">> >>
  /\ modeInput.local = << <<"deploy", ".", "a">>, <<"deploy", ".", "*">> >>
  /\ modeResult[<<"deploy", ".", "a">>].mode = "local"
  /\ modeResult[<<"build", ".", "a">>].mode = "default"

\* C5: with only sync patterns, a key that equals some entry of the sync list
\* gets sync mode as an exact-key (explicit) match, also when an entry that
\* only glob-matches the key stands earlier in the list.
C5_ExactMatchWins ==
  \A key \in Keys :
    (/\ modeResult[key] # NotApplied
     /\ modeInput.local = <<>>
     /\ key \in Entries(modeInput.sync))
      => modeResult[key] = [mode |-> "sync", explicitMode |-> TRUE]

(***************************************************************************)
(* Claims about the action graph                                           *)
(***************************************************************************)
\* the configs of the groups, in the order they are handed to addConfig
RECURSIVE GroupMembers(_)
GroupMembers(groups) ==
  IF groups = <<>> THEN <<>>
  ELSE LET group == Head(groups)
       IN [i \in 1..Len(group.actions) |->
             IF group.path # "" THEN [group.actions[i] EXCEPT !.path = group.path]
             ELSE group.actions[i]]
          \o GroupMembers(Tail(groups))

SameKindAndName(c, d) == c.kind = d.kind /\ c.name = d.name

HasRepeat(list) ==
  \E i, j \in 1..Len(list) : i < j /\ SameKindAndName(list[i], list[j])

\* the first config of the list that has the kind and name of an earlier one
FirstRepeat(list) ==
  CHOOSE j \in 1..Len(list) :
    /\ \E i \in 1..(j - 1) : SameKindAndName(list[i], list[j])
    /\ ~HasRepeat(SubSeq(list, 1, j - 1))

\* C6: in Garden.addActionConfig and in actionConfigsToGraph (top-level
\* configs and configs of groups), adding a config with the kind and name of
\* a config already added raises a configuration error that names both
\* paths, leaves the first config in place, and no graph is returned.
C6_UniqueKindAndName ==
  [][/\ \A config \in ScannedConfigs :
          (AddActionConfig(config) /\ Has(gardenActionConfigs, KeyOf(config)))
            => /\ pc' = "failed"
               /\ error'.type = "ConfigurationError"
               /\ error'.paths = {gardenActionConfigs[KeyOf(config)].path, config.path}
               /\ gardenActionConfigs' = gardenActionConfigs
               /\ configGraph' = NoGraph
     /\ LET list == configs' \o GroupMembers(groupConfigs')
        IN HasRepeat(list)
             => LET j == FirstRepeat(list)
                    i == CHOOSE i \in 1..(j - 1) : SameKindAndName(list[i], list[j])
                IN /\ pc' = "failed"
                   /\ error'.type = "ConfigurationError"
                   /\ error'.paths = {list[i].path, list[j].path}
                   /\ configsByKey'[ActionReferenceToString(list[j])] = list[i]
                   /\ graph' = EmptyMap
                   /\ configGraph' = NoGraph
     /\ pc = "failed" => pc' = "failed"]_vars

\* C6 witness: getConfigGraph has failed on a config of a group declared in
\* p7 that has the kind and name of the Deploy a scanned from p1, which is
\* still the config under the key.
C6_Witness ==
  /\ caller = "getConfigGraph"
  /\ pc = "failed"
  /\ error.type = "ConfigurationError"
  /\ error.message = "Found two actions of the same name and kind"
  /\ error.paths = {"p1", "p7"}
  /\ Has(gardenActionConfigs, <<"deploy", ".", "a">>)
  /\ configsByKey[<<"deploy", ".", "a">>].path = "p1"
  /\ configGraph = NoGraph

\* C7: an action A in the graph that references output key K of an action B
\* in the graph depends on B with needsExecutedOutputs = FALSE and
\* needsStaticOutputs = TRUE when K is in the static outputs schema of the
\* type of B, and with needsExecutedOutputs = TRUE when it is not.
C7_ReferencedTypeDecides ==
  \A key \in DOMAIN graph :
    \A i \in 1..Len(graph[key].config.references) :
      LET ref == graph[key].config.references[i]
          onKey == ActionReferenceToString(ref)
      IN Has(graph, onKey) =>
           LET B == graph[onKey].config
               static == ref.outputKey \in StaticOutputKeys(B.kind, B.type)
           IN \E d \in graph[key].dependencies :
                /\ SameRef(d, ref)
                /\ d.needsExecutedOutputs = ~static
                /\ static => d.needsStaticOutputs

\* C8: getConfigGraph returns no graph with a dependency cycle: validate()
\* has been called after the initial build and after every augmentation
\* step that added an action or a dependency, so that the graph is valid
\* whenever a plugin is asked, and once more before the graph is returned;
\* when validate() fails no graph is returned.
C8_CycleRejection ==
  /\ configGraph.returned => ~HasCycle(configGraph.actions)
  /\ configGraph.returned <=> pc = "returned"
  /\ error.message = "invalid dependency structure" => pc = "failed"
  /\ (caller = "getConfigGraph" /\ pc = "augment")
       => validateCalls = 1 + augmentUpdates /\ Validate(graph) = NoError
  /\ (caller = "getConfigGraph" /\ pc = "returned")
       => validateCalls = 2 + augmentUpdates /\ configGraph.actions = graph

\* C8 witness: a plugin added the dependency that closed a cycle, the second
\* call of validate() failed and no graph was returned.
C8_Witness ==
  /\ caller = "getConfigGraph"
  /\ pc = "failed"
  /\ error.message = "invalid dependency structure"
  /\ HasCycle(graph)
  /\ augmentUpdates = 1
  /\ validateCalls = 2
  /\ configGraph = NoGraph

(***************************************************************************)
(* Claims about the run results                                            *)
(***************************************************************************)
\* C9: when the backend answers not found (404) for the result key,
\* k8sGetRunResult returns {state: "not-ready", detail: null, outputs: null}
\* and throws nothing; every other error of the backend is thrown to the
\* caller as it is.
C9_MissingRecord ==
  lastCall.handler = "k8sGetRunResult" =>
    /\ lastCall.answer = NotFound
         => /\ lastCall.thrown = NoFailure
            /\ lastCall.returned =
                 [state |-> "not-ready", detail |-> Null, outputs |-> Null]
    /\ lastCall.answer \in BackendFailures
         => /\ lastCall.thrown = lastCall.answer
            /\ lastCall.returned = NoReturn

\* C9 witness: a read of a key under which nothing is stored has returned
\* not-ready.
C9_Witness ==
  /\ lastCall.handler = "k8sGetRunResult"
  /\ ~Has(configMaps, lastCall.key)
  /\ lastCall.answer = NotFound
  /\ lastCall.thrown = NoFailure
  /\ lastCall.returned.state = "not-ready"

\* the read of a stored record without outputs has returned
ReadWithoutOutputs ==
  /\ lastCall.handler = "k8sGetRunResult"
  /\ lastCall.answer = NoFailure
  /\ lastCall.data.outputs = Absent
  /\ lastCall.thrown = NoFailure

IsEmptyObject(object) == object = EmptyObject \/ object = ObjectWithLog(Undefined)

\* C10 as stated: a stored record without outputs is read back with
\* outputs = {}, in the detail or at the top of what is returned.
C10_EmptyOutputs ==
  ReadWithoutOutputs
    => \/ IsEmptyObject(lastCall.returned.detail.outputs)
       \/ IsEmptyObject(lastCall.returned.outputs)

\* C10: a stored record without outputs is read back with detail.outputs =
\* {log: L}, L being the top-level log of the record when that is a
\* non-empty text and "" otherwise, and with outputs = {log: the top-level
\* log of the record}; when the record has no version either, the read
\* throws a TypeError instead.
C10_OutputsWithLog ==
  /\ ReadWithoutOutputs
       => LET legacy == IF lastCall.data.log = Absent THEN Undefined
                        ELSE Parse(lastCall.data.log)
          IN /\ lastCall.returned.detail.outputs =
                  ObjectWithLog(IF Truthy(legacy) THEN legacy ELSE <<>>)
             /\ lastCall.returned.outputs = ObjectWithLog(legacy)
  /\ (/\ lastCall.handler = "k8sGetRunResult"
      /\ lastCall.answer = NoFailure
      /\ lastCall.data.outputs = Absent
      /\ lastCall.data.version = Absent)
       => lastCall.thrown = TypeError /\ lastCall.returned = NoReturn

\* C10 witness: a record without outputs and with the top-level log "x" was
\* read back with "x" as the log of both outputs.
C10_Witness ==
  /\ ReadWithoutOutputs
  /\ lastCall.data.log = Json(<<"x">>)
  /\ lastCall.returned.detail.outputs = ObjectWithLog(<<"x">>)
  /\ lastCall.returned.outputs = ObjectWithLog(<<"x">>)

\* the read of a stored record that has a top-level log but no log in its
\* outputs (no outputs at all, outputs without a log, or an empty one)
ReadWithLegacyLog ==
  /\ lastCall.handler = "k8sGetRunResult"
  /\ lastCall.answer = NoFailure
  /\ lastCall.data.log # Absent
  /\ \/ lastCall.data.outputs = Absent
     \/ ~Truthy(LogOf(Parse(lastCall.data.outputs)))

\* C11: a stored record that has no outputs.log but has a top-level log is
\* read back by k8sGetRunResult with that top-level log as the log of the
\* outputs, both in the detail and at the top of what is returned; the read
\* fails only for a record that holds no version.
C11_LegacyLog ==
  ReadWithLegacyLog =>
    LET legacy == Parse(lastCall.data.log)
    IN IF lastCall.data.version = Absent
       THEN lastCall.thrown = TypeError
       ELSE /\ lastCall.thrown = NoFailure
            /\ LogOf(lastCall.returned.detail.outputs) = legacy
            /\ LogOf(lastCall.returned.outputs) = legacy

\* C11 witness: a record with the top-level log "x" and with outputs that
\* hold no log was read back with "x" as the log of its outputs.
C11_Witness ==
  /\ ReadWithLegacyLog
  /\ lastCall.data.outputs = Json(EmptyObject)
  /\ lastCall.data.log = Json(<<"x">>)
  /\ lastCall.thrown = NoFailure
  /\ LogOf(lastCall.returned.detail.outputs) = <<"x">>
  /\ LogOf(lastCall.returned.outputs) = <<"x">>

(***************************************************************************)
(* Claims about the exec actions                                           *)
(***************************************************************************)
\* C13: given an action with an empty or absent command, the run handler
\* of the exec Run action does not call execRunCommand and returns success
\* = true, an empty log and completedAt identical to startedAt, after
\* copying the artifacts.
C13_ExecRunNoOp ==
  (execCall.handler = "execRun" /\ ~HasCommand(execCall.command)) =>
    /\ execCall.commandResult = NotCalled
    /\ ~execCall.thrown
    /\ execCall.success /\ execCall.state = "ready"
    /\ execCall.log = <<>>
    /\ execCall.outputs = ObjectWithLog(<<>>)
    /\ execCall.completedAt = execCall.startedAt
    /\ execCall.artifactsCopied

\* C13 witness: the Run handler has returned for an empty command list at a
\* time when the clock had moved on.
C13_Witness ==
  /\ execCall.handler = "execRun"
  /\ execCall.command = <<>>
  /\ execCall.success
  /\ execCall.startedAt > 0
  /\ execCall.completedAt = execCall.startedAt
  /\ execCall.artifactsCopied

\* C14 as stated: given an action with an empty command list, the run
\* handler of the exec Test action does not call execRunCommand and reports
\* success with an empty log and startedAt equal to completedAt.
C14_ExecTestNoOp ==
  (execCall.handler = "execTest" /\ execCall.command = <<>>) =>
    /\ execCall.commandResult = NotCalled
    /\ ~execCall.thrown
    /\ execCall.success
    /\ execCall.log = <<>>
    /\ execCall.completedAt = execCall.startedAt

(***************************************************************************)
(* Claims about the keys of the run results                                *)
(***************************************************************************)
\* the actions agree on type, name and version (the project is the same)
SameKeyInputs(a, b) == a.type = b.type /\ a.name = b.name /\ a.version = b.version

IsResultKey(key) ==
  /\ Len(key) = 33
  /\ key[1] = "run-result--"
  /\ \A i \in 2..33 : \E d \in 1..16 : key[i] = HexDigits[d]

\* C12: the key every handler derives for an action is "run-result--"
\* followed by exactly 32 hexadecimal characters; it is the key of every
\* action with the same type, name and version string in the project,
\* whatever its kind, and two calls in a row for such actions use the
\* identical key.
C12_KeyDeterminism ==
  /\ [](lastCall.handler # "" =>
         /\ IsResultKey(lastCall.key)
         /\ \A other \in RunActions :
              SameKeyInputs(other, lastCall.action)
                => GetRunResultKey(other) = lastCall.key)
  /\ [][(/\ lastCall.handler # ""
         /\ lastCall'.handler # ""
         /\ SameKeyInputs(lastCall.action, lastCall'.action))
           => lastCall'.key = lastCall.key]_vars

\* C12 witness: a record was read for the Test action a under the key that
\* the Run action of the same type, name and version has.
C12_Witness ==
  /\ lastCall.handler = "k8sGetRunResult"
  /\ lastCall.action.kind = "Test"
  /\ lastCall.answer = NoFailure
  /\ IsResultKey(lastCall.key)
  /\ lastCall.key = GetRunResultKey([lastCall.action EXCEPT !.kind = "Run"])

(***************************************************************************)
(* Claims about the manifests                                              *)
(***************************************************************************)
\* the call had a kustomize path and one of "-o", "--output", "-h", "--help"
\* as an element of kustomize.extraArgs
CalledWithDisallowedArg ==
  /\ manifestCall.called
  /\ manifestCall.spec.kustomizePath # Undefined
  /\ manifestCall.spec.extraArgs # Undefined
  /\ \E arg \in {"-o", "--output", "-h", "--help"} :
       Includes(manifestCall.spec.extraArgs, arg)

ScanCalls == {c \in Callers : gardenCalls[c].op = "scanAndAddConfigs"}

\* C16: with calls of scanAndAddConfigs() without force running at the same
\* time on one Garden, no such call starts the scan body once a scan has
\* succeeded (configsScanned is set), every call that has returned did so
\* with configsScanned set, and no resource was put into its registry more
\* than once.
C16_ScanOnce ==
  /\ [](/\ \A c \in ScanCalls : gardenCalls[c].pc = "returned" => configsScanned
        /\ \A resource \in AllResources : addCounts[resource] <= 1)
  /\ [][(configsScanned /\ \A c \in Callers : ~gardenCalls'[c].force)
          => bodyRuns'["scan-configs"] = bodyRuns["scan-configs"]]_vars

\* C16 witness: two calls without force have waited for the lock together;
\* the scan body ran once, put three resources into the registries, and
\* both calls have returned.
C16_Witness ==
  /\ \A c \in {1, 2} :
       /\ gardenCalls[c].op = "scanAndAddConfigs"
       /\ ~gardenCalls[c].force
       /\ gardenCalls[c].queued /\ ~gardenCalls[c].doneAtCall
       /\ gardenCalls[c].pc = "returned"
  /\ bodyRuns["scan-configs"] = 1
  /\ configsScanned
  /\ Cardinality(registry) = 3

\* C17 as stated: every call of one of the three operations has tested its
\* already-done condition before it asked for the lock, and tests it again
\* once it has the lock.
C17_CheckedTwice ==
  \A c \in Callers :
    LET call == gardenCalls[c]
    IN /\ call.pc # "idle" => call.checkedBefore
       /\ call.pc \in {"body", "returned", "thrown"} /\ call.queued => call.checkedAfter

\* the plugins were loaded, or the configs scanned, when the call was made
\* without force
NothingToDo(call) == call.doneAtCall /\ ~call.force

\* C17: getAllPlugins and scanAndAddConfigs test their already-done
\* condition before asking for the lock, so that a call made when the work
\* is done returns without waiting for the lock, and test it again once they
\* have the lock; resolveProviders tests its condition only once it has the
\* lock, so every call of it waits for the lock, also when every provider
\* asked for is resolved already.
C17_CheckedUnderLock ==
  \A c \in Callers :
    LET call == gardenCalls[c]
    IN /\ call.pc \in {"body", "returned", "thrown"} /\ call.queued => call.checkedAfter
       /\ call.op \in {"getAllPlugins", "scanAndAddConfigs"} =>
            /\ call.checkedBefore
            /\ NothingToDo(call) => ~call.queued /\ call.pc = "returned"
       /\ call.op = "resolveProviders" => ~call.checkedBefore /\ call.queued

\* C17 witness: a call of resolveProviders made when another call had
\* resolved its providers has waited for the lock all the same and has
\* returned after the test under the lock.
C17_Witness ==
  \E c, d \in Callers :
    /\ gardenCalls[d].op = "resolveProviders"
    /\ ~gardenCalls[d].doneAtCall /\ gardenCalls[d].pc = "returned"
    /\ gardenCalls[c].op = "resolveProviders"
    /\ gardenCalls[c].doneAtCall /\ ~gardenCalls[c].checkedBefore
    /\ gardenCalls[c].queued /\ gardenCalls[c].checkedAfter
    /\ gardenCalls[c].pc = "returned"
    /\ bodyRuns["resolve-providers"] = 1

\* C18: when the task of at least one provider of the batch of a
\* resolveProviders call has ended with an error, the call raises one
\* PluginError that names every failed provider, and resolvedProviders and
\* the module registry are what they were before: no provider of the batch
\* is stored, those that resolved included.
C18_ProviderFailure ==
  [][\A c \in Callers :
       (/\ gardenCalls[c].op = "resolveProviders"
        /\ gardenCalls[c].pc = "body"
        /\ gardenCalls'[c].pc # "body"
        /\ gardenCalls'[c].failed # {})
         => /\ gardenCalls'[c].pc = "thrown"
            /\ gardenCalls'[c].errorType = "PluginError"
            /\ gardenCalls'[c].errorNames = gardenCalls'[c].failed
            /\ resolvedProviders' = resolvedProviders
            /\ registry' = registry
            /\ addCounts' = addCounts]_vars

\* C18 witness: a call for both providers in which k8s failed and exec
\* resolved has raised the error, and exec is not among the resolved
\* providers.
C18_Witness ==
  \E c \in Callers :
    /\ gardenCalls[c].op = "resolveProviders"
    /\ gardenCalls[c].names = {"exec", "k8s"}
    /\ gardenCalls[c].pc = "thrown"
    /\ gardenCalls[c].failed = {"k8s"}
    /\ gardenCalls[c].errorNames = {"k8s"}
    /\ "exec" \notin resolvedProviders

(***************************************************************************)
(* Claims about storing and clearing run results                           *)
(***************************************************************************)
\* C19: storeRunResult never fails because the write of the record failed:
\* it then logs a warning, leaves the store as it was, and returns the
\* result with its log trimmed, which is also what it returns when the
\* write succeeds.
C19_WriteFailureSwallowed ==
  /\ [](lastCall.handler = "storeRunResult" =>
          /\ lastCall.thrown = NoFailure
          /\ lastCall.returned.detail = TrimRunOutput(lastCall.result)
          /\ lastCall.warned <=> lastCall.answer \in BackendFailures)
  /\ [][(lastCall'.handler = "storeRunResult" /\ lastCall'.answer \in BackendFailures)
          => configMaps' = configMaps]_vars

\* C19 witness: the write of a result with the log "xy" has failed, and
\* storeRunResult has warned and returned the result with the shortened log.
C19_Witness ==
  /\ lastCall.handler = "storeRunResult"
  /\ lastCall.answer \in BackendFailures
  /\ lastCall.result.log = <<"x", "y">>
  /\ lastCall.warned
  /\ lastCall.thrown = NoFailure
  /\ lastCall.returned.detail.log = TailString(<<"x", "y">>, MaxRunResultLogLength)

\* C20: clearTaskResult removes the record stored under the key of the
\* action; when the backend answers not found (404) it completes without
\* an error and without effect, so that a second clear right after a clear
\* leaves the store as the first one left it; every other error of the
\* backend is thrown to the caller.
C20_ClearIdempotent ==
  /\ [](lastCall.handler = "clearTaskResult" =>
          /\ lastCall.answer = NoFailure
               => lastCall.thrown = NoFailure /\ ~Has(configMaps, lastCall.key)
          /\ lastCall.answer = NotFound => lastCall.thrown = NoFailure
          /\ lastCall.answer \in BackendFailures => lastCall.thrown = lastCall.answer)
  /\ [][(lastCall'.handler = "clearTaskResult" /\ lastCall'.answer # NoFailure)
          => configMaps' = configMaps]_vars
  /\ [][(/\ lastCall.handler = "clearTaskResult"
         /\ lastCall.thrown = NoFailure
         /\ lastCall'.handler = "clearTaskResult"
         /\ lastCall'.key = lastCall.key)
          => (lastCall'.answer = NotFound => lastCall'.thrown = NoFailure)
             /\ (lastCall'.thrown = NoFailure => configMaps' = configMaps)]_vars

\* C20 witness: a second clear right after a clear was answered with not
\* found and has completed without an error.
C20_Witness ==
  /\ lastCall.handler = "clearTaskResult"
  /\ lastCall.previous = "clearTaskResult"
  /\ lastCall.answer = NotFound
  /\ lastCall.thrown = NoFailure
  /\ ~Has(configMaps, lastCall.key)


(***************************************************************************)
(* Claims about single keys and the flashed message                        *)
(***************************************************************************)
\* C26 as stated: ctrl-u keeps the text before the cursor and leaves the
\* cursor where it is; ctrl-k empties the buffer only with the cursor at 0.
C26_ClearToEnd ==
  [][/\ lastKey' = "ctrl-u" =>
          /\ currentCommand' = Substring(currentCommand, 0, cursorPosition)
          /\ cursorPosition' = cursorPosition
     /\ lastKey' = "ctrl-k" =>
          /\ currentCommand' = (IF cursorPosition = 0 THEN <<>> ELSE currentCommand)
          /\ cursorPosition' = cursorPosition]_vars

\* C26, amended: ctrl-u removes the text before the cursor, keeps the text
\* from the cursor to the end and moves the cursor to 0; ctrl-k empties the
\* buffer only with the cursor at 0 and changes nothing otherwise; neither
\* changes the history.
C26_ClearBack ==
  [][/\ lastKey' = "ctrl-u" =>
          /\ currentCommand' = SubSeq(currentCommand, cursorPosition + 1, Len(currentCommand))
          /\ cursorPosition' = 0
          /\ UNCHANGED <<commandHistory, historyIndex>>
     /\ lastKey' = "ctrl-k" =>
          /\ currentCommand' = (IF cursorPosition = 0 THEN <<>> ELSE currentCommand)
          /\ UNCHANGED <<cursorPosition, commandHistory, historyIndex>>]_vars

\* the last key was ctrl-u and text is left in the buffer, with the cursor
\* before it
C26_Witness ==
  /\ lastKey = "ctrl-u"
  /\ currentCommand # <<>>
  /\ cursorPosition = 0

\* C27: when up-arrow has just brought the newest entry of the history into
\* the buffer, a down-arrow leaves the buffer empty, the cursor at 0 and
\* historyIndex at the end of the history.
C27_DownUndoesUp ==
  [][(/\ lastKey = "up" /\ lastKey' = "down"
      /\ commandHistory # <<>>
      /\ historyIndex = Len(commandHistory) - 1
      /\ currentCommand = commandHistory[Len(commandHistory)])
     => /\ currentCommand' = <<>>
        /\ cursorPosition' = 0
        /\ historyIndex' = Len(commandHistory)]_vars

\* C28: return on a blank buffer changes no field of the editor, flashes
\* nothing and invokes nothing; return on a line that is not blank and
\* matches no command flashes the could-not-find-command error, leaves
\* currentCommand, cursorPosition, commandHistory and historyIndex as they
\* were and invokes no action.
C28_ReturnWithoutCommand ==
  [][lastKey' = "return" =>
       /\ IsBlank(currentCommand) =>
            /\ UNCHANGED <<editorVars, messageLine, messageTimeout, timers, running>>
            /\ invoked' = NoCommand
       /\ (~IsBlank(currentCommand) /\ PickCommand(Split(currentCommand)) = {}) =>
            /\ messageLine' = [prefix |-> "error", text |-> "could not find command",
                               command |-> NoCommand]
            /\ UNCHANGED <<currentCommand, cursorPosition, commandHistory,
                           historyIndex, running>>
            /\ invoked' = NoCommand]_vars

\* return was pressed on a line that matches no command, after a command
\* was run: the error is on the message line and the line is still in the
\* buffer
C28_Witness ==
  /\ lastKey = "return"
  /\ ~IsBlank(currentCommand)
  /\ PickCommand(Split(currentCommand)) = {}
  /\ messageLine.text = "could not find command"
  /\ commandHistory # <<>>

\* C21: a flash cancels the timer of the flash before it, so the only timer
\* pending is that of the most recent flash, set when that flash was made
\* for the duration it was given (3000 ms when none); the message line is
\* cleared only by that timer and not before it is due.
C21_LastFlashClears ==
  [][/\ timers' \subseteq {messageTimeout'}
     /\ (messageLine' # messageLine /\ messageLine' # NoMessage) =>
          /\ timers' = {messageTimeout'}
          /\ messageTimeout'.at = now
          /\ messageTimeout'.due - now \in {DefaultMessageDuration} \cup (Durations \ {0})
     /\ (messageLine # NoMessage /\ messageLine' = NoMessage) =>
          /\ timers = {messageTimeout}
          /\ timers' = {}
          /\ now >= messageTimeout.due]_vars

\* the success of a command is on the message line, flashed at 1000 ms
\* after the flash that said the command was running; at 4000 ms the timer
\* of that earlier flash would have been due and the message is still there
C21_Witness ==
  /\ messageLine.text = "completed successfully"
  /\ messageTimeout.at = 1000
  /\ now = 4000
  /\ timers = {messageTimeout}

(***************************************************************************)
(* Claims about the dev console and the server                             *)
(***************************************************************************)
\* C22: the hide command stops exactly the monitors that were active, have
\* the type asked for once "logs" and "syncs" are read as "log" and "sync"
\* (any type when none is given), and have a key that matches one of the
\* names as a glob (any key when no name is given or a name is "*"); every
\* other monitor stays active.
C22_HideStopsSelected ==
  hideCall.called =>
    LET wanted == IF hideCall.args.type = LogsType THEN LogType
                  ELSE IF hideCall.args.type = SyncsType THEN SyncType
                  ELSE hideCall.args.type
        names == hideCall.args.names
        anyKey == \/ ~hideCall.args.given
                  \/ names = <<>>
                  \/ \E i \in 1..Len(names) : names[i] = <<"*">>
        selected ==
          {monitor \in hideCall.active :
             /\ wanted = NoType \/ monitor.type = wanted
             /\ \/ anyKey
                \/ \E i \in 1..Len(names) : Minimatch(monitor.key, names[i])}
    IN  /\ hideCall.stopped = selected
        /\ monitors = hideCall.active \ selected

\* "hide syncs a*" with log and sync monitors of a and of ab active: the two
\* sync monitors were stopped and the log monitors are still active
C22_Witness ==
  /\ hideCall.called
  /\ hideCall.args.type = SyncsType
  /\ hideCall.args.names = << <<"a", "*">> >>
  /\ Cardinality(hideCall.stopped) = 2
  /\ \E monitor \in monitors : monitor.type = LogType

\* the words of the command of the request, as the request gives them
C23_Words ==
  SelectSeq(Split(request.command) \o request.stringArguments, LAMBDA word : word # <<>>)
C23_RootFails ==
  IF request.projectRoot = "" THEN request.defaultProjectRoot # "/project"
  ELSE request.projectRoot # "/project"
C23_CommandUnknown ==
  /\ request.command # <<>>
  /\ C23_Words = <<>> \/ C23_Words[1] \notin {<<"a">>, <<"a", "a">>}
C23_ArgumentsFail ==
  /\ request.command # <<>>
  /\ ~C23_CommandUnknown
  /\ \E i \in 2..Len(C23_Words) : C23_Words[i] = <<"-">>

\* C23: once resolveRequest has returned, a projectRoot that does not
\* exist, is not a directory or holds no project config gave an error of
\* code 400; otherwise a command that matches no command gave one of code
\* 404; otherwise arguments that do not parse gave one of code 400 with the
\* parse failure as detail; and in each case, at every step of the call, the
\* manager was not asked for a Garden. It is asked only when all three
\* checks pass.
C23_ValidationOrder ==
  /\ (\E i \in 1..Len(resolve.managerCalls) :
        resolve.managerCalls[i] = "getGardenForRequest") =>
       ~C23_RootFails /\ ~C23_CommandUnknown /\ ~C23_ArgumentsFail
  /\ resolve.pc = "returned" =>
       /\ C23_RootFails =>
            /\ resolve.returned.error.code = 400
            /\ resolve.returned.error.detail = NoDetail
            /\ resolve.managerCalls = <<>>
       /\ (~C23_RootFails /\ C23_CommandUnknown) =>
            /\ resolve.returned.error.code = 404
            /\ resolve.returned.error.message = "could not find command"
       /\ (~C23_RootFails /\ C23_ArgumentsFail) =>
            /\ resolve.returned.error.code = 400
            /\ resolve.returned.error.message = "invalid arguments for command"
            /\ resolve.returned.error.detail # NoDetail
       /\ (C23_RootFails \/ C23_CommandUnknown \/ C23_ArgumentsFail) =>
            ~resolve.returned.garden

\* a request for a command that is not known, in a project that is there:
\* the 404 was returned after the commands of the project were loaded
C23_Witness ==
  /\ resolve.pc = "returned"
  /\ request.projectRoot = "/project"
  /\ request.command = <<"b">>
  /\ resolve.returned.error.code = 404
  /\ resolve.managerCalls = <<"ensureProjectRootContext">>

\* C24: once the watcher is started, for every skipped module or action
\* every direct child of its directory other than its own config file is in
\* skipPaths, and its config file is not.
C24_SkipAllButConfig ==
  watcher.started =>
    \A skipped \in watcher.skipModules \cup watcher.skipActions :
      /\ \A relPath \in Readdir(skipped.path) :
           Append(skipped.path, relPath) # skipped.configPath
             => Append(skipped.path, relPath) \in watcher.skipPaths
      /\ skipped.configPath \notin watcher.skipPaths

(***************************************************************************)
(* Claims about the events of the Deploy router                            *)
(***************************************************************************)
\* the events of the log that carry the actionUid of the call of c
C25_EventsOf(c) ==
  SelectSeq(eventLog, LAMBDA event : event.actionUid = routerCalls[c].actionUid)

C29_WarningOnlyForExactMode ==
  \A key \in modeWarnings :
    /\ modeResult[key].mode \in {"sync", "local"}
    /\ FirstMatch(key, modeInput[modeResult[key].mode]) = "exact"
    /\ modeResult[key].mode \notin supportedModes[KindOfKey(key)]

\* C30: graph.validate() is called only when every config has been
\* processed and its action added to the graph, and the plugins augment the
\* graph only after that call; a call that failed while processing a config
\* holds a configuration error that names the kind and the name of a config
\* that is not in the graph, has not called validate() and has returned no
\* graph.
C30_BuildThenValidate ==
  /\ validateCalls > 0 =>
       /\ pending = {}
       /\ \A key \in DOMAIN configsByKey : key \in DOMAIN graph
  /\ (pc = "augment" \/ augmentUpdates > 0) => validateCalls > 0
  /\ (pc = "failed" /\ error.message = "Error processing config") =>
       /\ error.type = "ConfigurationError"
       /\ \E key \in pending :
            /\ key \notin DOMAIN graph
            /\ error.config = [kind |-> configsByKey[key].kind,
                               name |-> configsByKey[key].name]
       /\ validateCalls = 0
       /\ configGraph = NoGraph

\* getConfigGraph has failed while processing a config, after the action of
\* another config was added to the graph
C30_Witness ==
  /\ caller = "getConfigGraph"
  /\ pc = "failed"
  /\ error.message = "Error processing config"
  /\ error.config.kind \in Kinds
  /\ graph # EmptyMap
  /\ validateCalls = 0

\* C33: after any sequence of keystrokes the cursor is inside the buffer or
\* right behind its last character: 0 <= cursorPosition <= length of
\* currentCommand.
C33_CursorInBuffer ==
  /\ 0 <= cursorPosition
  /\ cursorPosition <= Len(currentCommand)

\* C33 witness: after a key that edits or moves, the cursor stands strictly
\* inside a full buffer.
C33_Witness ==
  /\ lastKey = "other"
  /\ Len(currentCommand) = MaxLen
  /\ 0 < cursorPosition /\ cursorPosition < MaxLen

\* C34: commandHistory never holds two equal entries, historyIndex stays
\* between 0 and the length of commandHistory, and the up and down arrows
\* never change commandHistory.
C34_HistoryKept ==
  /\ [](/\ \A i, j \in 1..Len(commandHistory) :
             commandHistory[i] = commandHistory[j] => i = j
        /\ 0 <= historyIndex
        /\ historyIndex <= Len(commandHistory))
  /\ [][lastKey' \in {"up", "down"} => commandHistory' = commandHistory]_vars

\* C34 witness: with two lines in the history, up arrows went back to the
\* first entry, which is now in the buffer.
C34_Witness ==
  /\ lastKey = "up"
  /\ Len(commandHistory) = 2
  /\ historyIndex = 0
  /\ currentCommand = commandHistory[1]

(***************************************************************************)
(* Claims about the kinds of actions, the logs and the arguments           *)
(***************************************************************************)
\* the Run and Test actions that differ from the action in their kind only
OfOtherKind(action) ==
  {other \in RunActions : other.kind # action.kind /\ SameKeyInputs(other, action)}

\* what the cluster holds under a key, if anything
RecordAt(maps, key) == IF Has(maps, key) THEN maps[key] ELSE NoData

\* C38 as stated: a Run and a Test action with the same project name, type,
\* name and version have different run-result keys, so storing or clearing
\* the result of one leaves the record of the other as it was.
C38_KindsKeptApart ==
  /\ [](lastCall.handler # "" =>
         \A other \in OfOtherKind(lastCall.action) :
           GetRunResultKey(other) # lastCall.key)
  /\ [][lastCall'.handler \in {"storeRunResult", "clearTaskResult"} =>
         \A other \in OfOtherKind(lastCall'.action) :
           RecordAt(configMaps', GetRunResultKey(other))
             = RecordAt(configMaps, GetRunResultKey(other))]_vars

\* the arguments with which kustomize build writes its output somewhere
\* else or prints its help: the flags alone and with an attached value
SetsOutputOrAsksHelp(arg) ==
  arg \in {"-o", "--output", "-h", "--help", "-o=x", "--output=x", "-ox"}

\* C40 as stated: kustomize is never invoked with an extra argument that
\* sets the output destination or asks for help, the forms with an attached
\* value included.
C40_NoOutputRedirection ==
  manifestCall.kustomizeCalls > 0 =>
    \A i \in 1..Len(manifestCall.kustomizeArgs) :
      ~SetsOutputOrAsksHelp(manifestCall.kustomizeArgs[i])

\* C39 as stated: for every record k8sGetRunResult reads successfully, the
\* log of the returned outputs equals the log of the returned
\* detail.outputs, also for a record stored with a log in its outputs and
\* without a top-level log.
C39_SameLogOnRead ==
  (/\ lastCall.handler = "k8sGetRunResult"
   /\ lastCall.answer = NoFailure
   /\ lastCall.thrown = NoFailure)
    => LogOf(lastCall.returned.outputs) = LogOf(lastCall.returned.detail.outputs)

(***************************************************************************)
(* Claims about scans that are repeated or fail, and batches of providers  *)
(***************************************************************************)
\* the registries hold what the files of the project declare, next to the
\* module configs of the providers
HoldsTheScanned(reg) ==
  \A resource \in ScannedResources :
    resource \in reg <=> (\E i \in 1..Len(projectResources) : projectResources[i] = resource)

\* C32 as stated: scanAndAddConfigs(force = true) on a Garden that has
\* completed a scan runs the scan again and completes, leaving the
\* registries equal to what was scanned again; it does not fail with a
\* declared-multiple-times error for what the earlier scan registered.
C32_ForcedRescanSucceeds ==
  [][\A c \in Callers :
       (/\ gardenCalls[c].op = "scanAndAddConfigs"
        /\ gardenCalls[c].force
        /\ gardenCalls[c].pc = "body"
        /\ configsScanned
        /\ gardenCalls'[c].pc \in {"returned", "thrown"}
        /\ gardenCalls'[c].errorType # "Error")
         => /\ gardenCalls'[c].pc = "returned"
            /\ HoldsTheScanned(registry')]_vars

\* C36 as stated: when scanAndAddConfigs fails, configsScanned stays false
\* and the registries are what they were before the call.
C36_FailedScanLeavesNothing ==
  [][\A c \in Callers :
       (/\ gardenCalls[c].op = "scanAndAddConfigs"
        /\ gardenCalls[c].pc = "body"
        /\ ~configsScanned
        /\ gardenCalls'[c].pc = "thrown")
         => /\ ~configsScanned'
            /\ registry' = registry]_vars

\* C37 as stated: over any calls of resolveProviders with different sets of
\* names, the module configs of a provider are added at most once, and a
\* batch of a provider that is already resolved and one that is not never
\* ends with a module-declared-multiple-times error.
C37_ProviderModulesOnce ==
  /\ \A name \in ProviderNames : \A resource \in ProviderModuleConfigs(name) :
       addCounts[resource] <= 1
  /\ \A c \in Callers :
       (gardenCalls[c].op = "resolveProviders" /\ gardenCalls[c].pc = "thrown")
         => gardenCalls[c].errorType # "ConfigurationError"

(***************************************************************************)
(* Claims about the rendered line and the actions of commands              *)
(***************************************************************************)
\* C35: from disable(message) to the next enable() no keystroke changes the
\* buffer, the cursor, the history or the autocomplete state, and no
\* render, the one of the blinking cursor included, calls the command-line
\* callback: the line it was last given is the message of the disable().
C35_DisabledConsole ==
  /\ [](~enabled => commandLine = MessageLine(disabledWith))
  /\ [][(~enabled /\ ~enabled') => UNCHANGED editorVars]_vars

\* C35 witness: the console was disabled with a line in the buffer and a
\* command in the history, the cursor has blinked off, a key was pressed
\* last, and the callback still holds the message.
C35_Witness ==
  /\ ~enabled
  /\ lastKey = "other"
  /\ ~showCursor
  /\ currentCommand = <<"a">>
  /\ commandHistory # <<>>
  /\ commandLine = MessageLine("please wait")

\* the message line after a flash of the text about the command
Flashed(prefix, text, command) == [prefix |-> prefix, text |-> text, command |-> command]

\* C31: when return on a line invokes the action of a command, the line is
\* then the last entry of the history, the buffer is empty and rendered as
\* empty, and the command is running with the running flash on the message
\* line, unless it is interactive, and then no flash is made; when the
\* action settles, the step flashes once: the failure when the promise was
\* rejected or the result carries errors, otherwise the success, or nothing
\* at all for an interactive command.
C31_ReturnRunsCommand ==
  /\ [][(lastKey' = "return" /\ invoked' # NoCommand) =>
          /\ invoked' \in PickCommand(Split(currentCommand))
          /\ commandHistory' # <<>>
          /\ commandHistory'[Len(commandHistory')] = currentCommand
          /\ historyIndex' = Len(commandHistory')
          /\ currentCommand' = <<>> /\ cursorPosition' = 0
          /\ commandLine' = Rendered(<<>>, 0, showCursor)
          /\ invoked' \in running'
          /\ IF invoked' = << <<"a">> >>
             THEN /\ messageLine' = Flashed("info", "running", invoked')
                  /\ messageTimeout' \in timers'
             ELSE UNCHANGED <<messageLine, messageTimeout, timers>>]_vars
  /\ [][settled'.command # NoCommand =>
          /\ settled'.command \in running /\ settled'.command \notin running'
          /\ IF settled'.outcome \in {"errors", "rejected"}
             THEN /\ messageLine' = Flashed("error", "failed running", settled'.command)
                  /\ timers' = (timers \ {messageTimeout}) \cup {messageTimeout'}
             ELSE IF settled'.command = << <<"a">> >>
             THEN /\ messageLine' =
                       Flashed("success", "completed successfully", settled'.command)
                  /\ timers' = (timers \ {messageTimeout}) \cup {messageTimeout'}
             ELSE UNCHANGED <<messageLine, messageTimeout, timers>>]_vars

\* C31 witness: the action of the command "a" has settled without errors
\* while the line that invoked it is in the history, and the success is on
\* the message line.
C31_Witness ==
  /\ settled = [command |-> << <<"a">> >>, outcome |-> "no errors"]
  /\ commandHistory # <<>>
  /\ currentCommand = <<>>
  /\ messageLine = Flashed("success", "completed successfully", << <<"a">> >>)

=============================================================================
